---- MODULE Spec2Model ----
(***************************************************************************)
(* The workflow execution engine of backend/src/services:                  *)
(* WorkflowExecutor (workflow_executor.py) driving node executors through  *)
(* the NodeExecutorRegistry (node_executors/registry.py).                  *)
(*                                                                         *)
(* The engine runs on one asyncio event loop, so the code between two      *)
(* suspension points runs atomically.  execute_workflow suspends only in   *)
(* `await asyncio.gather(...)` and a node task suspends only in            *)
(* `await executor.execute(context)`.  Each action below is one such       *)
(* uninterrupted stretch of code.                                          *)
(***************************************************************************)
EXTENDS Integers, Sequences, FiniteSets, TLC

\* ------------------------------------------------------------------ bounds
MaxNodes == 3        \* nodes of a workflow
MaxEdges == 2        \* edges of a workflow
MaxInstances == 3    \* executor instances constructed when the registry is driven directly

\* ------------------------------------------------------------- value space
NodeName == <<"A", "B", "C", "D", "E">>
NodeIds  == {NodeName[i] : i \in 1..MaxNodes}
\* the execution ids execute_workflow issues (uuid4: all distinct), and an id
\* it never issued
Run1      == "run-1"
RunIds    == {Run1, "run-2"}
UnknownId == "no-such-run"
NodeTypes == {"data", "bogus"}       \* "data" is registered, "bogus" is not

None      == [kind |-> "none"]       \* Python None where a result or an error is expected
EmptyDict == [k \in {} |-> None]     \* Python {}

\* Python values held by the namespace: a mapping, a scalar, or None
PyDict(f)   == [t |-> "dict", v |-> f]
PyScalar(x) == [t |-> "scalar", v |-> x]
PyNone      == [t |-> "none"]
IsDict(x)   == x.t = "dict"

\* ExecutionStatus (workflow_executor.py:14-19)
PENDING   == "pending"
RUNNING   == "running"
COMPLETED == "completed"
FAILED    == "failed"
CANCELLED == "cancelled"
ExecutionStatus == {PENDING, RUNNING, COMPLETED, FAILED, CANCELLED}

\* ExecutionResult (base.py:26-33); metadata and execution_time play no part
ExecutionResult(success, output, error) ==
    [kind |-> "result", success |-> success, output |-> output, error |-> error]

\* an exception object; str(e) is the record itself
Raised(err) == [kind |-> "exception", error |-> err]

\* ExecutionStep (workflow_executor.py:21-32)
ExecutionStep(node_id, node_type) ==
    [node_id |-> node_id, node_type |-> node_type, status |-> PENDING,
     start_time |-> FALSE, end_time |-> FALSE, result |-> None,
     error |-> None, inputs |-> EmptyDict, outputs |-> PyDict(EmptyDict)]

\* WorkflowExecution (workflow_executor.py:34-45); times are "set / not set"
WorkflowExecution(execution_id) ==
    [execution_id |-> execution_id, status |-> PENDING,
     start_time |-> FALSE, end_time |-> FALSE, steps |-> <<>>,
     results |-> EmptyDict, error |-> None]

NoExecution == [execution_id |-> UnknownId, status |-> "absent",
                start_time |-> FALSE, end_time |-> FALSE, steps |-> <<>>,
                results |-> EmptyDict, error |-> None]

\* ------------------------------------------------------------ error texts
\* The messages the engine builds, kept structured so that "the text names
\* node n" can be read off them.
ErrCircular(remaining) == [kind |-> "circular", remaining |-> remaining]
ErrNodeFailed(node_id, error) == [kind |-> "node_failed", node |-> node_id, error |-> error]
ErrNoExecutor(node_type) == [kind |-> "no_executor", type |-> node_type]
ErrExecutorText == [kind |-> "executor_error"]   \* text chosen by an executor
ErrExecutorFault == [kind |-> "executor_fault"]  \* str() of what an executor threw
ErrInvalidState == [kind |-> "invalid_state"]    \* asyncio: "Result is not set."

\* --------------------------------------------------------------- workflows
\* A workflow is what the caller passes to execute_workflow: a node list and
\* an edge list.  Node ids are unique; the i-th node is NodeName[i] (edges are
\* arbitrary, so every graph shape occurs up to renaming).  Edges may name
\* ids that are not declared.  Every node binds one input per incoming edge,
\* keyed by the producer id, to that producer's output (a string binding).
IndexEdges == (1..MaxNodes) \X (1..MaxNodes)
EdgeSets == {E \in SUBSET IndexEdges : Cardinality(E) <= MaxEdges}
EdgeKey(e) == e[1] * (MaxNodes + 1) + e[2]

RECURSIVE EdgeList(_)
EdgeList(E) ==
    IF E = {} THEN <<>>
    ELSE LET m == CHOOSE e \in E : \A f \in E : EdgeKey(e) <= EdgeKey(f)
         IN  <<[source |-> NodeName[m[1]], target |-> NodeName[m[2]]]>> \o EdgeList(E \ {m})

StringBinding(ref) == [t |-> "str", ref |-> ref]
StructuredBinding(source, field) == [t |-> "dict", source |-> source, field |-> field]

NodeOf(i, type, E) ==
    [id |-> NodeName[i], type |-> type,
     data |-> [inputs |-> [k \in {NodeName[e[1]] : e \in {f \in E : f[2] = i}}
                              |-> StringBinding(k)],
               config |-> EmptyDict]]

Workflows ==
    {[nodes |-> [i \in 1..n |-> NodeOf(i, types[i], E)], edges |-> EdgeList(E)] :
        <<n, types, E>> \in
            UNION {{<<n, types, E>> : types \in [1..n -> NodeTypes], E \in EdgeSets} : n \in 0..MaxNodes}}
\* no call: the executor is not asked for this run
NoCall == [nodes |-> <<>>, edges |-> <<>>, made |-> FALSE]
Called(w) == "made" \notin DOMAIN w
InitialInputs == [seed |-> PyScalar(1)]

\* the output a node's executor produces when it succeeds
OutputOf(node_id) == PyDict([data |-> PyScalar(node_id)])

\* -------------------------------------------------------------- pure code
Truthy(s) == s # ""

\* a faulty variant of the definition below: the edge is recorded the wrong way round
RECURSIVE AddEdgesReversed(_, _, _)
AddEdgesReversed(deps, edges, i) ==
    IF i > Len(edges) THEN deps
    ELSE LET source == edges[i].target
             target == edges[i].source
         IN  IF Truthy(source) /\ Truthy(target)
             THEN LET d == IF target \in DOMAIN deps THEN deps
                           ELSE [k \in DOMAIN deps \cup {target} |->
                                    IF k \in DOMAIN deps THEN deps[k] ELSE <<>>]
                  IN  AddEdgesReversed([d EXCEPT ![target] = Append(@, source)], edges, i + 1)
             ELSE AddEdgesReversed(deps, edges, i + 1)

\* _build_dependency_graph (workflow_executor.py:123-139)
RECURSIVE AddEdges(_, _, _)
AddEdges(deps, edges, i) ==
    IF i > Len(edges) THEN deps
    ELSE LET source == edges[i].source
             target == edges[i].target
         IN  IF Truthy(source) /\ Truthy(target)
             THEN LET d == IF target \in DOMAIN deps THEN deps
                           ELSE [k \in DOMAIN deps \cup {target} |->
                                    IF k \in DOMAIN deps THEN deps[k] ELSE <<>>]
                  IN  AddEdges([d EXCEPT ![target] = Append(@, source)], edges, i + 1)
             ELSE AddEdges(deps, edges, i + 1)

BuildDependencyGraph(nodes, edges) ==
    AddEdges([k \in {nodes[i].id : i \in 1..Len(nodes)} |-> <<>>], edges, 1)

\* dependencies.get(node_id, [])
DepsOf(deps, node_id) == IF node_id \in DOMAIN deps THEN deps[node_id] ELSE <<>>

\* a faulty variant of the definition below: any() where the code has all()
DepsSatisfiedAny(deps, node_id, executed) ==
    \E j \in 1..Len(DepsOf(deps, node_id)) : DepsOf(deps, node_id)[j] \in executed

\* all(dep in executed_nodes for dep in node_deps) (workflow_executor.py:167-168)
DepsSatisfied(deps, node_id, executed) ==
    \A j \in 1..Len(DepsOf(deps, node_id)) : DepsOf(deps, node_id)[j] \in executed

\* the ready_nodes loop (workflow_executor.py:160-169): node ids in list order
RECURSIVE ReadyFrom(_, _, _, _)
ReadyFrom(nodes, deps, executed, i) ==
    IF i > Len(nodes) THEN <<>>
    ELSE IF nodes[i].id \notin executed /\ DepsSatisfied(deps, nodes[i].id, executed)
         THEN <<i>> \o ReadyFrom(nodes, deps, executed, i + 1)
         ELSE ReadyFrom(nodes, deps, executed, i + 1)

\* a faulty variant of the definition below: only the first ready node of the list is started
ReadyNodesFirstOnly(nodes, deps, executed) ==
    LET ready == ReadyFrom(nodes, deps, executed, 1)
    IN  IF ready = <<>> THEN <<>> ELSE <<ready[1]>>

ReadyNodes(nodes, deps, executed) == ReadyFrom(nodes, deps, executed, 1)

\* remaining = [node["id"] for node in nodes if node["id"] not in executed_nodes]
RECURSIVE RemainingFrom(_, _, _)
RemainingFrom(nodes, executed, i) ==
    IF i > Len(nodes) THEN <<>>
    ELSE IF nodes[i].id \notin executed
         THEN <<nodes[i].id>> \o RemainingFrom(nodes, executed, i + 1)
         ELSE RemainingFrom(nodes, executed, i + 1)

\* a faulty variant of the definition below: the diagnosis lists the nodes that were executed
RemainingExecuted(nodes, executed) ==
    RemainingFrom(nodes, {nodes[i].id : i \in 1..Len(nodes)} \ executed, 1)

Remaining(nodes, executed) == RemainingFrom(nodes, executed, 1)

\* a faulty variant of the definition below: one binding that cannot be resolved empties the result
PrepareNodeInputsAllOrNothing(node, outputs) ==
    LET input_config == node.data.inputs
        SourceNode(spec) == IF "source" \in DOMAIN spec THEN spec.source ELSE ""
        SourceField(spec) == IF "field" \in DOMAIN spec THEN spec.field ELSE "data"
        Bound(k) ==
            LET spec == input_config[k]
            IN  IF spec.t = "str" THEN spec.ref \in DOMAIN outputs
                ELSE Truthy(SourceNode(spec)) /\ SourceNode(spec) \in DOMAIN outputs
        Value(k) ==
            LET spec == input_config[k]
            IN  IF spec.t = "str" THEN outputs[spec.ref]
                ELSE LET source_output == outputs[SourceNode(spec)]
                     IN  IF IsDict(source_output) /\ SourceField(spec) \in DOMAIN source_output.v
                         THEN source_output.v[SourceField(spec)]
                         ELSE source_output
    IN  IF \A k \in DOMAIN input_config : Bound(k)
        THEN [k \in DOMAIN input_config |-> Value(k)]
        ELSE EmptyDict

\* a faulty variant of the definition below: the branch for string bindings is missing
PrepareNodeInputsStructuredOnly(node, outputs) ==
    LET input_config == node.data.inputs
        SourceNode(spec) == IF "source" \in DOMAIN spec THEN spec.source ELSE ""
        SourceField(spec) == IF "field" \in DOMAIN spec THEN spec.field ELSE "data"
        Bound(k) ==
            LET spec == input_config[k]
            IN  spec.t # "str" /\ Truthy(SourceNode(spec)) /\ SourceNode(spec) \in DOMAIN outputs
        Value(k) ==
            LET spec == input_config[k]
                source_output == outputs[SourceNode(spec)]
            IN  IF IsDict(source_output) /\ SourceField(spec) \in DOMAIN source_output.v
                THEN source_output.v[SourceField(spec)]
                ELSE source_output
    IN  [k \in {x \in DOMAIN input_config : Bound(x)} |-> Value(k)]

\* _prepare_node_inputs (workflow_executor.py:267-296)
PrepareNodeInputs(node, outputs) ==
    LET input_config == node.data.inputs
        \* input_spec.get("source"), input_spec.get("field", "data")
        SourceNode(spec) == IF "source" \in DOMAIN spec THEN spec.source ELSE ""
        SourceField(spec) == IF "field" \in DOMAIN spec THEN spec.field ELSE "data"
        Bound(k) ==
            LET spec == input_config[k]
            IN  IF spec.t = "str" THEN spec.ref \in DOMAIN outputs
                ELSE Truthy(SourceNode(spec)) /\ SourceNode(spec) \in DOMAIN outputs
        Value(k) ==
            LET spec == input_config[k]
            IN  IF spec.t = "str" THEN outputs[spec.ref]
                ELSE LET source_output == outputs[SourceNode(spec)]
                     IN  IF IsDict(source_output) /\ SourceField(spec) \in DOMAIN source_output.v
                         THEN source_output.v[SourceField(spec)]
                         ELSE source_output
    IN  [k \in {x \in DOMAIN input_config : Bound(x)} |-> Value(k)]

\* a faulty variant of the definition below: the first step of the list is taken, whatever node it names
FindStepFirst(steps, node_id) ==
    IF \E i \in 1..Len(steps) : steps[i].node_id = node_id THEN 1 ELSE 0

\* next((s for s in execution.steps if s.node_id == node_id), None): 0 is None
FindStep(steps, node_id) ==
    IF \E i \in 1..Len(steps) : steps[i].node_id = node_id
    THEN CHOOSE i \in 1..Len(steps) :
            /\ steps[i].node_id = node_id
            /\ \A j \in 1..(i - 1) : steps[j].node_id # node_id
    ELSE 0

\* ------------------------------------------------------------------- state
VARIABLES
    calls,              \* calls[r]: the workflow of the r-th execute_workflow call
    pc,                 \* where the coroutine of call r is: "idle", "gather", "returned"
    active_executions,  \* WorkflowExecutor.active_executions (its keys; the value of key r is execution[r])
    execution,          \* execution[r]: the WorkflowExecution object of call r
    dependencies,       \* node_dependencies of call r
    node_outputs,       \* _execute_nodes: node_outputs (the namespace)
    node_results,       \* _execute_nodes: node_results
    executed_nodes,     \* _execute_nodes: executed_nodes
    ready_nodes,        \* _execute_nodes: ready_nodes of the wave in flight (indices into nodes)
    tasks,              \* the tasks asyncio.gather is waiting for, parallel to ready_nodes
    executors,          \* NodeExecutorRegistry._executors
    instances,          \* NodeExecutorRegistry._instances
    instances_created,  \* how many executor instances were constructed (object identity)
    cancel_ret,         \* what the last cancel_execution call returned
    call_args,          \* a call of one of the engine's functions on its own: the arguments
    call_ret,           \* ... and what the last such call returned or raised
    wave,               \* history: waves started so far in call r
    started_in          \* history: the wave in which each node's task started (0: not started)

vars == <<calls, pc, active_executions, execution, dependencies, node_outputs,
          node_results, executed_nodes, ready_nodes, tasks, executors, instances,
          instances_created, cancel_ret, call_args, call_ret, wave, started_in>>

\* register_executors() at import (node_executors/__init__.py:8-30)
RegisteredAtImport == [t \in {"data"} |-> "DataNodeExecutor"]

\* no function is called on its own
NoArgs == [op |-> "none"]

\* the module-level registry after import: executor_registry = NodeExecutorRegistry()
\* (registry.py:10-12, 111) and register_executors()
RegistryAtImport ==
    /\ executors = RegisteredAtImport
    /\ instances = EmptyDict
    /\ instances_created = 0

\* workflow_executor = WorkflowExecutor() (workflow_executor.py:50-52, 316),
\* no run started
ExecutorIdle ==
    /\ pc = [r \in RunIds |-> "idle"]
    /\ active_executions = {}
    /\ execution = [r \in RunIds |-> NoExecution]
    /\ dependencies = [r \in RunIds |-> EmptyDict]
    /\ node_outputs = [r \in RunIds |-> EmptyDict]
    /\ node_results = [r \in RunIds |-> EmptyDict]
    /\ executed_nodes = [r \in RunIds |-> {}]
    /\ ready_nodes = [r \in RunIds |-> <<>>]
    /\ tasks = [r \in RunIds |-> <<>>]
    /\ cancel_ret = FALSE
    /\ wave = [r \in RunIds |-> 0]
    /\ started_in = [r \in RunIds |-> [n \in NodeIds |-> 0]]

Init ==
    /\ \E w \in Workflows : calls = [r \in RunIds |-> IF r = Run1 THEN w ELSE NoCall]
    /\ ExecutorIdle
    /\ RegistryAtImport
    /\ call_args = NoArgs
    /\ call_ret = None

\* ----------------------------------------------------------- coordinator
\* A task of asyncio.gather: created, suspended in executor.execute, or done
\* (asking a task that is not done for its result raises InvalidStateError)
NewTask == [state |-> "created", result |-> Raised(ErrInvalidState)]

\* a faulty variant of the definition below: gather without return_exceptions, over as soon as one task has raised
GatherDoneFirstException(r) ==
    \/ \A i \in 1..Len(tasks[r]) : tasks[r][i].state = "done"
    \/ \E i \in 1..Len(tasks[r]) : tasks[r][i].state = "done" /\ tasks[r][i].result.kind = "exception"

\* a faulty variant of the definition below: the coordinator goes on as soon as one task is done
GatherDoneFirstCompleted(r) == \E i \in 1..Len(tasks[r]) : tasks[r][i].state = "done"

\* asyncio.gather(*tasks, return_exceptions=True) has completed
GatherDone(r) == \A i \in 1..Len(tasks[r]) : tasks[r][i].state = "done"

\* except Exception as e (workflow_executor.py:110-114)
ExecutionFailed(exe, e) == [exe EXCEPT !.status = FAILED, !.error = e, !.end_time = TRUE]

\* a faulty variant of the definition below: the finally clause is missing
CleanUpNothing(table, execution_id) == table

\* a faulty variant of the definition below: the table is emptied
CleanUpAll(table, execution_id) == {}

\* finally: the run leaves the table (workflow_executor.py:116-119)
CleanUp(table, execution_id) == table \ {execution_id}

\* workflow_executor.py:105-106
ExecutionCompleted(exe) == [exe EXCEPT !.status = COMPLETED, !.end_time = TRUE]

\* a faulty variant of the definition below: a result with success = False is stored like any other and the loop goes on
RECURSIVE ProcessResultsContinuing(_, _, _, _, _, _, _)
ProcessResultsContinuing(nodes, ready, results, i, executed, nres, nout) ==
    IF i > Len(results)
    THEN [executed |-> executed, node_results |-> nres, node_outputs |-> nout, raised |-> None]
    ELSE LET result == results[i]
             node_id == nodes[ready[i]].id
         IN  IF result.kind # "result"
             THEN [executed |-> executed, node_results |-> nres, node_outputs |-> nout,
                   raised |-> result.error]
             ELSE ProcessResultsContinuing(nodes, ready, results, i + 1, executed \cup {node_id},
                     [k \in DOMAIN nres \cup {node_id} |-> IF k = node_id THEN result ELSE nres[k]],
                     [k \in DOMAIN nout \cup {node_id} |-> IF k = node_id THEN result.output ELSE nout[k]])

\* The "Process results" loop (workflow_executor.py:188-201) from result i on:
\* the locals when the loop ends or raises, and what it raised (None: nothing).
RECURSIVE ProcessResults(_, _, _, _, _, _, _)
ProcessResults(nodes, ready, results, i, executed, nres, nout) ==
    IF i > Len(results)
    THEN [executed |-> executed, node_results |-> nres, node_outputs |-> nout, raised |-> None]
    ELSE LET result == results[i]
             node_id == nodes[ready[i]].id
         IN  IF result.kind # "result"
             THEN [executed |-> executed, node_results |-> nres, node_outputs |-> nout,
                   raised |-> result.error]
             ELSE IF result.success
             THEN ProcessResults(nodes, ready, results, i + 1, executed \cup {node_id},
                     [k \in DOMAIN nres \cup {node_id} |-> IF k = node_id THEN result ELSE nres[k]],
                     [k \in DOMAIN nout \cup {node_id} |-> IF k = node_id THEN result.output ELSE nout[k]])
             ELSE [executed |-> executed \cup {node_id}, node_results |-> nres,
                   node_outputs |-> nout, raised |-> ErrNodeFailed(node_id, result.error)]

\* the node is its own dependency, directly or through other nodes
RECURSIVE DependsWithin(_, _, _, _)
DependsWithin(deps, n, m, k) ==
    /\ k > 0
    /\ \E j \in 1..Len(DepsOf(deps, n)) :
          \/ DepsOf(deps, n)[j] = m
          \/ DependsWithin(deps, DepsOf(deps, n)[j], m, k - 1)
InDependencyCycle(nodes, deps, n) == DependsWithin(deps, n, n, Len(nodes))

\* a faulty variant of the definition below: the loop runs while a key of the dependency graph is unexecuted
CoordinateOverKeys(r, exe, table, deps, l) ==
    LET nodes   == calls[r].nodes
        looping == Cardinality(l.executed) < Cardinality(DOMAIN deps)
        ready   == ReadyNodes(nodes, deps, l.executed)
        e       == IF l.raised # None THEN l.raised
                   ELSE IF looping /\ ready = <<>>
                        THEN ErrCircular(Remaining(nodes, l.executed))
                        ELSE None
    IN  /\ executed_nodes' = [executed_nodes EXCEPT ![r] = l.executed]
        /\ node_results' = [node_results EXCEPT ![r] = l.node_results]
        /\ node_outputs' = [node_outputs EXCEPT ![r] = l.node_outputs]
        /\ dependencies' = [dependencies EXCEPT ![r] = deps]
        /\ IF e = None /\ looping
           THEN /\ ready_nodes' = [ready_nodes EXCEPT ![r] = ready]
                /\ tasks' = [tasks EXCEPT ![r] = [i \in 1..Len(ready) |-> NewTask]]
                /\ wave' = [wave EXCEPT ![r] = @ + 1]
                /\ execution' = [execution EXCEPT ![r] = exe]
                /\ pc' = [pc EXCEPT ![r] = "gather"]
                /\ active_executions' = table
           ELSE /\ execution' = [execution EXCEPT ![r] =
                        IF e = None THEN ExecutionCompleted(exe) ELSE ExecutionFailed(exe, e)]
                /\ active_executions' = CleanUp(table, r)
                /\ pc' = [pc EXCEPT ![r] = "returned"]
                /\ UNCHANGED <<ready_nodes, tasks, wave>>

\* a faulty variant of the definition below: a cycle among the declared nodes is reported before any node runs
CoordinatePreflight(r, exe, table, deps, l) ==
    LET nodes   == calls[r].nodes
        looping == Cardinality(l.executed) < Len(nodes)
        ready   == ReadyNodes(nodes, deps, l.executed)
        cyclic  == \E i \in 1..Len(nodes) : InDependencyCycle(nodes, deps, nodes[i].id)
        e       == IF l.raised # None THEN l.raised
                   ELSE IF looping /\ (ready = <<>> \/ cyclic)
                        THEN ErrCircular(Remaining(nodes, l.executed))
                        ELSE None
    IN  /\ executed_nodes' = [executed_nodes EXCEPT ![r] = l.executed]
        /\ node_results' = [node_results EXCEPT ![r] = l.node_results]
        /\ node_outputs' = [node_outputs EXCEPT ![r] = l.node_outputs]
        /\ dependencies' = [dependencies EXCEPT ![r] = deps]
        /\ IF e = None /\ looping
           THEN /\ ready_nodes' = [ready_nodes EXCEPT ![r] = ready]
                /\ tasks' = [tasks EXCEPT ![r] = [i \in 1..Len(ready) |-> NewTask]]
                /\ wave' = [wave EXCEPT ![r] = @ + 1]
                /\ execution' = [execution EXCEPT ![r] = exe]
                /\ pc' = [pc EXCEPT ![r] = "gather"]
                /\ active_executions' = table
           ELSE /\ execution' = [execution EXCEPT ![r] =
                        IF e = None THEN ExecutionCompleted(exe) ELSE ExecutionFailed(exe, e)]
                /\ active_executions' = CleanUp(table, r)
                /\ pc' = [pc EXCEPT ![r] = "returned"]
                /\ UNCHANGED <<ready_nodes, tasks, wave>>

\* The head of the while loop of _execute_nodes (workflow_executor.py:158-185)
\* with the locals as given, run until the coroutine suspends in gather or
\* execute_workflow returns (workflow_executor.py:105-121).  `exe` is the
\* execution object and `table` the active_executions keys as the code before
\* has left them, `l` the locals and what that code raised.
Coordinate(r, exe, table, deps, l) ==
    LET nodes   == calls[r].nodes
        looping == Cardinality(l.executed) < Len(nodes)
        ready   == ReadyNodes(nodes, deps, l.executed)
        e       == IF l.raised # None THEN l.raised
                   ELSE IF looping /\ ready = <<>>
                        THEN ErrCircular(Remaining(nodes, l.executed))
                        ELSE None
    IN  /\ executed_nodes' = [executed_nodes EXCEPT ![r] = l.executed]
        /\ node_results' = [node_results EXCEPT ![r] = l.node_results]
        /\ node_outputs' = [node_outputs EXCEPT ![r] = l.node_outputs]
        /\ dependencies' = [dependencies EXCEPT ![r] = deps]
        /\ IF e = None /\ looping
           THEN /\ ready_nodes' = [ready_nodes EXCEPT ![r] = ready]
                /\ tasks' = [tasks EXCEPT ![r] = [i \in 1..Len(ready) |-> NewTask]]
                /\ wave' = [wave EXCEPT ![r] = @ + 1]
                /\ execution' = [execution EXCEPT ![r] = exe]
                /\ pc' = [pc EXCEPT ![r] = "gather"]
                /\ active_executions' = table
           ELSE /\ execution' = [execution EXCEPT ![r] =
                        IF e = None THEN ExecutionCompleted(exe) ELSE ExecutionFailed(exe, e)]
                /\ active_executions' = CleanUp(table, r)
                /\ pc' = [pc EXCEPT ![r] = "returned"]
                /\ UNCHANGED <<ready_nodes, tasks, wave>>

\* execute_workflow up to its first suspension (workflow_executor.py:69-103)
ExecuteWorkflow(r) ==
    /\ pc[r] = "idle"
    /\ Called(calls[r])
    /\ LET nodes == calls[r].nodes
           exe == [WorkflowExecution(r) EXCEPT
                     !.status = RUNNING, !.start_time = TRUE,
                     !.steps = [i \in 1..Len(nodes) |-> ExecutionStep(nodes[i].id, nodes[i].type)]]
       IN  Coordinate(r, exe, active_executions \cup {r},
                         BuildDependencyGraph(nodes, calls[r].edges),
                         [executed |-> {}, node_results |-> EmptyDict,
                          node_outputs |-> InitialInputs, raised |-> None])
    /\ UNCHANGED <<calls, executors, instances, instances_created, cancel_ret, call_args,
                   call_ret, started_in>>

\* gather completes and _execute_nodes goes on (workflow_executor.py:185-201),
\* then round the loop again or out of execute_workflow
GatherReturns(r) ==
    /\ pc[r] = "gather"
    /\ GatherDone(r)
    /\ Coordinate(r, execution[r], active_executions, dependencies[r],
                  ProcessResults(calls[r].nodes, ready_nodes[r],
                                 [i \in 1..Len(tasks[r]) |-> tasks[r][i].result], 1,
                                 executed_nodes[r], node_results[r], node_outputs[r]))
    /\ UNCHANGED <<calls, executors, instances, instances_created, cancel_ret, call_args,
                   call_ret, started_in>>

\* ------------------------------------------------------------- node tasks
\* executor_class(node_type): a new object, unlike every object made before
Instance(class, created) == [kind |-> "instance", class |-> class, id |-> created + 1]

\* a faulty variant of the definition below: the cache is not consulted, every call constructs an instance
GetExecutorUncached(node_type) ==
    IF node_type \notin DOMAIN executors
    THEN [executor |-> None, instances |-> instances, created |-> instances_created]
    ELSE LET new == Instance(executors[node_type], instances_created)
         IN  [executor |-> new,
              instances |-> [t \in DOMAIN instances \cup {node_type} |->
                                IF t = node_type THEN new ELSE instances[t]],
              created |-> instances_created + 1]

\* NodeExecutorRegistry.get_executor (registry.py:28-47): what it returns and
\* the instance cache it leaves
GetExecutor(node_type) ==
    IF node_type \notin DOMAIN executors
    THEN [executor |-> None, instances |-> instances, created |-> instances_created]
    ELSE IF node_type \in DOMAIN instances
    THEN [executor |-> instances[node_type], instances |-> instances,
          created |-> instances_created]
    ELSE LET new == Instance(executors[node_type], instances_created)
         IN  [executor |-> new,
              instances |-> [t \in DOMAIN instances \cup {node_type} |->
                                IF t = node_type THEN new ELSE instances[t]],
              created |-> instances_created + 1]

\* the step record of the task's node, changed by f; the task is the i-th of the wave
TaskNode(r, i) == calls[r].nodes[ready_nodes[r][i]]
TaskStep(r, i) == FindStep(execution[r].steps, TaskNode(r, i).id)

\* tasks start in the order gather scheduled them
MayStart(r, i) ==
    /\ pc[r] = "gather"
    /\ i \in 1..Len(tasks[r])
    /\ tasks[r][i].state = "created"
    /\ \A j \in 1..(i - 1) : tasks[r][j].state # "created"

\* _execute_single_node up to `await executor.execute(context)`
\* (workflow_executor.py:211-245), for a node whose type has an executor
NodeStarts(r, i) ==
    /\ MayStart(r, i)
    /\ LET node == TaskNode(r, i)
           got  == GetExecutor(node.type)
           inputs == PrepareNodeInputs(node, node_outputs[r])
       IN  /\ got.executor # None
           /\ instances' = got.instances
           /\ instances_created' = got.created
           /\ execution' = [execution EXCEPT ![r].steps[TaskStep(r, i)] =
                               [@ EXCEPT !.status = RUNNING, !.start_time = TRUE,
                                         !.inputs = inputs]]
           /\ tasks' = [tasks EXCEPT ![r][i].state = "awaiting"]
           /\ started_in' = [started_in EXCEPT ![r][node.id] = wave[r]]
    /\ UNCHANGED <<calls, pc, active_executions, dependencies, node_outputs, node_results,
                   executed_nodes, ready_nodes, executors, cancel_ret, call_args, call_ret,
                   wave>>

\* _execute_single_node for a node whose type has no executor: the raise of
\* line 228 and the handler (workflow_executor.py:211-228, 260-265)
NodeStartsWithoutExecutor(r, i) ==
    /\ MayStart(r, i)
    /\ LET node == TaskNode(r, i)
           got  == GetExecutor(node.type)
           e    == ErrNoExecutor(node.type)
       IN  /\ got.executor = None
           /\ instances' = got.instances
           /\ instances_created' = got.created
           /\ execution' = [execution EXCEPT ![r].steps[TaskStep(r, i)] =
                               [@ EXCEPT !.status = FAILED, !.start_time = TRUE,
                                         !.error = e, !.end_time = TRUE]]
           /\ tasks' = [tasks EXCEPT ![r][i] = [state |-> "done", result |-> Raised(e)]]
           /\ started_in' = [started_in EXCEPT ![r][node.id] = wave[r]]
    /\ UNCHANGED <<calls, pc, active_executions, dependencies, node_outputs, node_results,
                   executed_nodes, ready_nodes, executors, cancel_ret, call_args, call_ret,
                   wave>>

\* BaseNodeExecutor.execute (base.py:42-53) is abstract: what an executor does
\* is the environment's choice among returning success, returning a failure
\* with an error text, and raising.
ExecuteOutcomes(node_id) ==
    {ExecutionResult(TRUE, OutputOf(node_id), None),
     ExecutionResult(FALSE, PyNone, ErrExecutorText),
     Raised(ErrExecutorFault)}

\* the step after executor.execute returned `result` (workflow_executor.py:246-257)
StepAfterResult(step, result) ==
    [step EXCEPT !.result = result,
                 !.outputs = IF result.success THEN result.output ELSE PyDict(EmptyDict),
                 !.status = IF result.success THEN COMPLETED ELSE FAILED,
                 !.error = IF result.success THEN @ ELSE result.error,
                 !.end_time = TRUE]

\* a faulty variant of the definition below: the handler puts the step back to Pending
StepAfterExceptionRequeued(step, e) ==
    [step EXCEPT !.status = PENDING, !.error = e, !.end_time = TRUE]

\* the step after executor.execute raised e (workflow_executor.py:260-265)
StepAfterException(step, e) ==
    [step EXCEPT !.status = FAILED, !.error = e, !.end_time = TRUE]

\* executor.execute returns or raises and _execute_single_node runs to its end
\* (workflow_executor.py:245-265)
NodeFinishes(r, i) ==
    /\ pc[r] = "gather"
    /\ i \in 1..Len(tasks[r])
    /\ tasks[r][i].state = "awaiting"
    /\ \E out \in ExecuteOutcomes(TaskNode(r, i).id) :
        /\ execution' = [execution EXCEPT ![r].steps[TaskStep(r, i)] =
                            IF out.kind = "result" THEN StepAfterResult(@, out)
                            ELSE StepAfterException(@, out.error)]
        /\ tasks' = [tasks EXCEPT ![r][i] = [state |-> "done", result |-> out]]
    /\ UNCHANGED <<calls, pc, active_executions, dependencies, node_outputs, node_results,
                   executed_nodes, ready_nodes, executors, instances, instances_created,
                   cancel_ret, call_args, call_ret, wave, started_in>>

\* ------------------------------------------------------------ the service
\* get_execution_status (workflow_executor.py:298-300); NoExecution is None
GetExecutionStatus(execution_id) ==
    IF execution_id \in active_executions THEN execution[execution_id] ELSE NoExecution

\* list_active_executions (workflow_executor.py:311-313)
ListActiveExecutions == active_executions

\* a faulty variant of the definition below: the membership test is missing; every id is reported as cancelled
CancelExecutionUnchecked(execution_id) ==
    /\ IF execution_id \in RunIds /\ pc[execution_id] # "idle"
       THEN execution' = [execution EXCEPT ![execution_id] =
                            [@ EXCEPT !.status = CANCELLED, !.end_time = TRUE]]
       ELSE UNCHANGED execution
    /\ cancel_ret' = TRUE
    /\ UNCHANGED <<calls, pc, active_executions, dependencies, node_outputs, node_results,
                   executed_nodes, ready_nodes, tasks, executors, instances,
                   instances_created, call_args, call_ret, wave, started_in>>

\* cancel_execution (workflow_executor.py:302-309), called by another coroutine
CancelExecution(execution_id) ==
    /\ IF execution_id \in active_executions
       THEN /\ execution' = [execution EXCEPT ![execution_id] =
                                [@ EXCEPT !.status = CANCELLED, !.end_time = TRUE]]
            /\ cancel_ret' = TRUE
       ELSE /\ cancel_ret' = FALSE
            /\ UNCHANGED execution
    /\ UNCHANGED <<calls, pc, active_executions, dependencies, node_outputs, node_results,
                   executed_nodes, ready_nodes, tasks, executors, instances,
                   instances_created, call_args, call_ret, wave, started_in>>

\* the ids callers pass: those execute_workflow issued and one it never issued
CancelIds == {UnknownId} \cup {r \in RunIds : Called(calls[r])}

Next ==
    \/ \E r \in RunIds : ExecuteWorkflow(r)
    \/ \E r \in RunIds : \E i \in 1..MaxNodes : NodeStarts(r, i)
    \/ \E r \in RunIds : \E i \in 1..MaxNodes : NodeStartsWithoutExecutor(r, i)
    \/ \E r \in RunIds : \E i \in 1..MaxNodes : NodeFinishes(r, i)
    \/ \E r \in RunIds : GatherReturns(r)
    \/ \E id \in CancelIds : CancelExecution(id)

Spec == Init /\ [][Next]_vars

\* ---------------------------------------------------------------- graphs
Declared(w) == {w.nodes[i].id : i \in 1..Len(w.nodes)}
HasEdge(w, s, t) == \E i \in 1..Len(w.edges) : w.edges[i].source = s /\ w.edges[i].target = t
EndpointsDeclared(w) ==
    \A i \in 1..Len(w.edges) : w.edges[i].source \in Declared(w) /\ w.edges[i].target \in Declared(w)

\* t is reachable from s by at least one and at most k edges between declared nodes
RECURSIVE Reaches(_, _, _, _)
Reaches(w, s, t, k) ==
    /\ k > 0
    /\ \/ HasEdge(w, s, t)
       \/ \E m \in Declared(w) : HasEdge(w, s, m) /\ Reaches(w, m, t, k - 1)

OnCycle(w, n) == n \in Declared(w) /\ Reaches(w, n, n, Len(w.nodes))
HasCycle(w) == \E n \in Declared(w) : OnCycle(w, n)
WellFormed(w) == EndpointsDeclared(w) /\ ~HasCycle(w)

\* The event loop runs every coroutine that is ready, and an executor's
\* execute is taken to return or raise eventually; callers of
\* cancel_execution are under no obligation.
RunProgress(r) ==
    \/ ExecuteWorkflow(r)
    \/ \E i \in 1..MaxNodes : NodeStarts(r, i) \/ NodeStartsWithoutExecutor(r, i) \/ NodeFinishes(r, i)
    \/ GatherReturns(r)

\* The runs of graphs that meet the data model's invariant: unique node ids
\* (all workflows here), every edge endpoint declared, no cycle.
FairInit == Init /\ \A r \in RunIds : Called(calls[r]) => WellFormed(calls[r])

FairSpec ==
    /\ FairInit
    /\ [][Next]_vars
    /\ \A r \in RunIds : WF_vars(RunProgress(r))

\* ------------------------------------------------------------ run records
Returned(r) == pc[r] = "returned"
StepOf(r, n) == execution[r].steps[FindStep(execution[r].steps, n)]
StatusOf(r, n) == StepOf(r, n).status
Terminal(status) == status \in {COMPLETED, FAILED}
Succeeded(step) == step.status = COMPLETED /\ step.result.kind = "result" /\ step.result.success

\* ------------------------------------------------------------------ C1
\* C1: for every edge s -> t between declared nodes, t's step has left
\* Pending only if s's step is Completed with a successful result; so no node
\* starts while a dependency is Pending, Running or Failed.
C1_DependenciesFirst ==
    \A r \in RunIds : \A s, t \in Declared(calls[r]) :
        (pc[r] # "idle" /\ HasEdge(calls[r], s, t) /\ StatusOf(r, t) # PENDING)
            => Succeeded(StepOf(r, s))

C1_Witness ==
    \E s, t \in Declared(calls[Run1]) :
        /\ pc[Run1] = "gather" /\ s # t /\ HasEdge(calls[Run1], s, t)
        /\ StatusOf(Run1, t) = RUNNING /\ Succeeded(StepOf(Run1, s))

\* ------------------------------------------------------------------ C2
\* C2: wave barrier.  A node that started in a later wave than n started
\* only after n finished (Completed or Failed) and the coordinator had taken
\* n's result; and the coordinator takes the results of a wave only when every
\* node of that wave has finished.
InWave(r) == {calls[r].nodes[ready_nodes[r][i]].id : i \in 1..Len(ready_nodes[r])}

C2_WaveBarrier ==
    \A r \in RunIds :
        /\ \A n, m \in Declared(calls[r]) :
              (started_in[r][n] > 0 /\ started_in[r][m] > started_in[r][n])
                  => Terminal(StatusOf(r, n)) /\ n \in executed_nodes[r]
        /\ (pc[r] # "idle" /\ InWave(r) \cap executed_nodes[r] # {})
              => \A n \in InWave(r) : Terminal(StatusOf(r, n))

C2_Witness ==
    \E n, m \in Declared(calls[Run1]) :
        /\ started_in[Run1][n] = 1 /\ started_in[Run1][m] = 2
        /\ StatusOf(Run1, m) = RUNNING

\* ------------------------------------------------------------------ C3
FailedSteps(r) == {n \in Declared(calls[r]) : StatusOf(r, n) = FAILED}

\* C3 as stated: for an acyclic graph with unique ids and declared endpoints,
\* every node's step is Completed or Failed in the returned record.
C3_AllStepsTerminal ==
    \A r \in RunIds :
        (Returned(r) /\ WellFormed(calls[r]))
            => \A n \in Declared(calls[r]) : Terminal(StatusOf(r, n))

\* C3 amended: for such a graph execute_workflow returns (every executor call
\* returning or raising), and in the returned record no step is Running: if no
\* node failed every step is Completed; if a node failed, every node that
\* started is Completed or Failed and the nodes that never started are Pending.
StepsSettled(r) ==
    /\ \A n \in Declared(calls[r]) :
          /\ StatusOf(r, n) \in {COMPLETED, FAILED, PENDING}
          /\ StatusOf(r, n) = PENDING <=> started_in[r][n] = 0
    /\ FailedSteps(r) = {} => \A n \in Declared(calls[r]) : StatusOf(r, n) = COMPLETED

C3_TerminatesSettled ==
    <>[](\A r \in RunIds :
            (Called(calls[r]) /\ WellFormed(calls[r])) => (Returned(r) /\ StepsSettled(r)))

C3_Witness ==
    /\ Returned(Run1) /\ WellFormed(calls[Run1]) /\ Len(calls[Run1].nodes) = 3
    /\ StepsSettled(Run1)
    /\ \E n, m \in Declared(calls[Run1]) : StatusOf(Run1, n) = FAILED /\ StatusOf(Run1, m) = PENDING

\* ------------------------------------------------------------------ C4
\* the node ids an error text names
ErrorNames(e, n) ==
    CASE e.kind = "circular" -> \E i \in 1..Len(e.remaining) : e.remaining[i] = n
      [] e.kind = "node_failed" -> e.node = n
      [] OTHER -> FALSE

\* C4 as stated: a graph with a cycle (a self-loop included) is returned Failed
\* with an error that names a node on a cycle.
C4_CycleNamed ==
    \A r \in RunIds :
        (Returned(r) /\ HasCycle(calls[r]))
            => /\ execution[r].status = FAILED
               /\ \E n \in Declared(calls[r]) : OnCycle(calls[r], n) /\ ErrorNames(execution[r].error, n)

\* the run-level error is the one node n's failure raised
ErrorOfNode(r, n) ==
    \/ execution[r].error = ErrNodeFailed(n, StepOf(r, n).error)
    \/ StepOf(r, n).result.kind # "result" /\ execution[r].error = StepOf(r, n).error

\* C4 amended: a graph with a cycle among its declared nodes is returned
\* Failed; if no node failed, the error is the circular-dependency diagnosis
\* and lists every node on a cycle; if a node failed before the scheduler found
\* no ready node, the error is that node's failure and names no node on a cycle.
C4_CycleFails ==
    \A r \in RunIds :
        (Returned(r) /\ HasCycle(calls[r]))
            => /\ execution[r].status = FAILED
               /\ IF FailedSteps(r) = {}
                  THEN /\ execution[r].error.kind = "circular"
                       /\ \A n \in Declared(calls[r]) :
                             OnCycle(calls[r], n) => ErrorNames(execution[r].error, n)
                  ELSE /\ \E n \in FailedSteps(r) : ErrorOfNode(r, n)
                       /\ \A n \in Declared(calls[r]) :
                             OnCycle(calls[r], n) => ~ErrorNames(execution[r].error, n)

C4_Witness ==
    /\ Returned(Run1) /\ HasCycle(calls[Run1]) /\ execution[Run1].error.kind = "circular"
    /\ \E n, m \in Declared(calls[Run1]) :
          /\ n # m /\ OnCycle(calls[Run1], n) /\ OnCycle(calls[Run1], m)
          /\ ErrorNames(execution[Run1].error, n)
    /\ \E n \in Declared(calls[Run1]) : StatusOf(Run1, n) = COMPLETED

\* ------------------------------------------------------------------ C5
\* node n's executor returned a result with success = False
ReportedFailure(r, n) == StepOf(r, n).result.kind = "result" /\ ~StepOf(r, n).result.success

\* C5: abort on first failure.  When a node's executor reports success = False
\* the run is returned Failed, no wave after that node's wave was started,
\* every node of an earlier wave is Completed, the node's step is Failed, and
\* every node that had not started is Pending.
C5_AbortOnFailure ==
    \A r \in RunIds : \A n \in Declared(calls[r]) :
        (Returned(r) /\ ReportedFailure(r, n))
            => /\ execution[r].status = FAILED
               /\ wave[r] = started_in[r][n]
               /\ StatusOf(r, n) = FAILED
               /\ \A m \in Declared(calls[r]) :
                     /\ (0 < started_in[r][m] /\ started_in[r][m] < started_in[r][n])
                            => StatusOf(r, m) = COMPLETED
                     /\ started_in[r][m] = 0 => StatusOf(r, m) = PENDING

\* the chain A -> B -> C with B failing
C5_Witness ==
    /\ Returned(Run1) /\ Len(calls[Run1].nodes) = 3
    /\ HasEdge(calls[Run1], "A", "B") /\ HasEdge(calls[Run1], "B", "C")
    /\ StatusOf(Run1, "A") = COMPLETED
    /\ StatusOf(Run1, "B") = FAILED /\ ReportedFailure(Run1, "B")
    /\ StatusOf(Run1, "C") = PENDING
    /\ execution[Run1].status = FAILED

\* ------------------------------------------------------------------ C6
\* C6 as stated: whenever a node failed (success = False, a raise, or no
\* executor for its type) the returned run is Failed, each failed step has an
\* error, and the run-level error identifies a failing node id.
C6_FailureNamesNode ==
    \A r \in RunIds :
        (Returned(r) /\ FailedSteps(r) # {})
            => /\ execution[r].status = FAILED
               /\ \A n \in FailedSteps(r) : StepOf(r, n).error # None
               /\ \E n \in FailedSteps(r) : ErrorNames(execution[r].error, n)

\* ------------------------------------------------------------------ C7
\* C7 as stated: once cancel_execution has marked a run Cancelled while a wave
\* is in flight, the coordinator starts no further wave.
C7_NoWaveAfterCancel ==
    [][\A r \in RunIds : execution[r].status = CANCELLED => wave'[r] = wave[r]]_vars

\* ------------------------------------------------------------------ C8
\* the moves of the run status the state machine allows; a record is created
\* Pending and set Running before any other coroutine can see it
RunStatusMoves ==
    {<<"absent", PENDING>>, <<PENDING, RUNNING>>, <<"absent", RUNNING>>,
     <<"absent", COMPLETED>>, <<"absent", FAILED>>,
     <<RUNNING, COMPLETED>>, <<RUNNING, FAILED>>, <<RUNNING, CANCELLED>>}

\* C8 as stated: the run status only moves Pending -> Running -> {Completed,
\* Failed, Cancelled} and a terminal status never changes; a run marked
\* Cancelled is returned Cancelled.
C8_RunStatusMachine ==
    [][\A r \in RunIds :
          execution'[r].status # execution[r].status
              => <<execution[r].status, execution'[r].status>> \in RunStatusMoves]_vars

\* ------------------------------------------------------------------ C9
\* C9: cancel_execution(id) returns true exactly when id is in the active-runs
\* table, and then that run's status is Cancelled and no other record changes;
\* for any other id it returns false and changes neither the table nor any
\* run record.
C9_CancelContract ==
    [][\A id \in RunIds \cup {UnknownId} :
          CancelExecution(id)
              => /\ cancel_ret' = (id \in active_executions)
                 /\ active_executions' = active_executions
                 /\ id \in active_executions
                        => /\ execution'[id].status = CANCELLED
                           /\ \A r \in RunIds \ {id} : execution'[r] = execution[r]
                 /\ id \notin active_executions => execution' = execution]_vars

C9_Witness ==
    /\ cancel_ret
    /\ Run1 \in active_executions
    /\ execution[Run1].status = CANCELLED

\* ------------------------------------------------------------------ C10
\* C10: a run is in the active-runs table from its creation until
\* execute_workflow returns; on every exit path it is gone when the record is
\* returned, so get_execution_status finds nothing, list_active_executions
\* omits it, and nothing changes the returned record afterwards.
C10_ActiveUntilReturned ==
    /\ [](\A r \in RunIds :
             /\ r \in active_executions <=> pc[r] = "gather"
             /\ pc[r] = "gather" => GetExecutionStatus(r) = execution[r]
             /\ Returned(r) => /\ GetExecutionStatus(r) = NoExecution
                               /\ r \notin ListActiveExecutions)
    /\ [][\A r \in RunIds : Returned(r) => execution'[r] = execution[r]]_vars

\* a failed run that was returned, and a cancel_execution call that did not find it
C10_Witness ==
    /\ Returned(Run1) /\ execution[Run1].status = FAILED
    /\ ~cancel_ret
    /\ GetExecutionStatus(Run1) = NoExecution

\* ------------------------------------------------------------------ C11
\* C11 as stated: a run returned Completed carries in `results` the namespace:
\* every key of the initial inputs, and for every node id the output that
\* node's executor returned.
C11_ResultsHoldNamespace ==
    \A r \in RunIds :
        (Returned(r) /\ execution[r].status = COMPLETED)
            => /\ \A k \in DOMAIN InitialInputs :
                     k \in DOMAIN execution[r].results /\ execution[r].results[k] = InitialInputs[k]
               /\ \A n \in Declared(calls[r]) :
                     /\ n \in DOMAIN execution[r].results
                     /\ execution[r].results[n] = StepOf(r, n).result.output

\* ------------------------------------------- functions called on their own
\* The engine's functions whose contract does not depend on a run in
\* progress are called here once each on arguments drawn from the sets
\* below: call_args holds the arguments, call_ret what the call returned.
Ret(value) == [kind |-> "returned", value |-> value]

\* ---- LangGraphWorkflowExecutor.execute_node
\* (langgraph_workflows/workflow_executor.py:261-346)
\* the types the if/elif chain names (lines 279-325), and one it does not
LgNodeTypes ==
    {"aiAgent", "email", "slack", "data", "condition", "delay", "schedule", "blogWriter",
     "socialMedia", "instagram_post", "imageGenerator", "seoOptimizer"}

\* the node function the chain calls for a type; the last branch is the else
\* of lines 326-327
LgNodeFunction(node_type) ==
    CASE node_type = "aiAgent"        -> "ai_agent_node"
      [] node_type = "email"          -> "email_node"
      [] node_type = "slack"          -> "slack_node"
      [] node_type = "data"           -> "data_node"
      [] node_type = "condition"      -> "condition_node"
      [] node_type = "delay"          -> "delay_node"
      [] node_type = "schedule"       -> "schedule_node"
      [] node_type = "blogWriter"     -> "blog_writer_node"
      [] node_type = "socialMedia"    -> "social_media_node"
      [] node_type = "instagram_post" -> "social_media_node"
      [] node_type = "imageGenerator" -> "image_generator_node"
      [] node_type = "seoOptimizer"   -> "seo_optimizer_node"
      [] OTHER                        -> "ai_agent_node"

\* what a node function of LangGraphWorkflowNodes does is the environment's
\* choice: it returns the state with a status, or it raises
LgNodeOutcomes == {"completed", "failed", "raised"}

\* execute_node: the node function it invoked and the dict it returns; the
\* except clause (lines 339-346) turns a raise into a 'failed' result
LgExecuteNode(node_type, outcome) ==
    [invoked |-> LgNodeFunction(node_type),
     result  |-> [status |-> IF outcome = "raised" THEN "failed" ELSE outcome,
                  node_type |-> node_type]]

ExecuteNodeArgs ==
    {[op |-> "execute_node", node_type |-> t] : t \in LgNodeTypes \cup {"bogus"}}

ExecuteNodeCall ==
    /\ call_args.op = "execute_node"
    /\ call_ret = None
    /\ \E outcome \in LgNodeOutcomes :
          call_ret' = Ret(LgExecuteNode(call_args.node_type, outcome))
    /\ UNCHANGED <<calls, pc, active_executions, execution, dependencies, node_outputs,
                   node_results, executed_nodes, ready_nodes, tasks, executors, instances,
                   instances_created, cancel_ret, call_args, wave, started_in>>

\* ---- input resolution
\* The strings used as references, and str.split('.') on each of them.
RefStrings == {"A", "B", "x", "y", "A.x", "A.y", "B.x", "A.x.y"}

Split(reference) ==
    CASE reference = "A.x"   -> <<"A", "x">>
      [] reference = "A.y"   -> <<"A", "y">>
      [] reference = "B.x"   -> <<"B", "x">>
      [] reference = "A.x.y" -> <<"A", "x", "y">>
      [] OTHER               -> <<reference>>

\* '.' in reference
HasDot(reference) == Len(Split(reference)) > 1

\* the string "P.f"
Dotted(P, f) == CHOOSE s \in RefStrings : Split(s) = <<P, f>>

\* Namespaces: node ids A and B, an initial-input key x and a key that
\* contains a dot, each absent or bound to a scalar or to a mapping.
NsKeys == {"A", "B", "x", "A.x"}
NsValues ==
    {PyScalar("hello"),
     PyDict([x |-> PyScalar("5"), y |-> PyScalar("6")]),
     PyDict([y |-> PyScalar("6")])}
Namespaces == UNION {[K -> NsValues] : K \in SUBSET NsKeys}

\* the binding specifications a node may declare for an input
Bindings ==
    {StringBinding(ref) : ref \in {"A", "B", "x", "A.x", "A.y", "B.x"}}
        \cup {StructuredBinding(P, f) : P \in {"A", "B"}, f \in {"x", "y"}}
        \cup {[t |-> "dict", source |-> "A"], [t |-> "dict", field |-> "x"]}

\* a node that declares one or two inputs
BindingNodes ==
    {[id |-> "N", type |-> "data", data |-> [inputs |-> b, config |-> EmptyDict]] :
        b \in [{"in1"} -> Bindings] \cup [{"in1", "in2"} -> Bindings]}

PrepareNodeInputsArgs ==
    {[op |-> "_prepare_node_inputs", node |-> node, node_outputs |-> ns] :
        node \in BindingNodes, ns \in Namespaces}

\* a faulty variant of the definition below: the keys that were resolved are taken out of the namespace
PrepareNodeInputsCallConsuming ==
    /\ call_args.op = "_prepare_node_inputs"
    /\ call_ret = None
    /\ call_ret' = Ret(PrepareNodeInputs(call_args.node, call_args.node_outputs))
    /\ call_args' = [call_args EXCEPT !.node_outputs =
                        [k \in DOMAIN @ \ {IF call_args.node.data.inputs[i].t = "str"
                                           THEN call_args.node.data.inputs[i].ref ELSE "" :
                                              i \in DOMAIN call_args.node.data.inputs} |-> @[k]]]
    /\ UNCHANGED <<calls, pc, active_executions, execution, dependencies, node_outputs,
                   node_results, executed_nodes, ready_nodes, tasks, executors, instances,
                   instances_created, cancel_ret, wave, started_in>>

\* WorkflowExecutor._prepare_node_inputs(node, node_outputs)
PrepareNodeInputsCall ==
    /\ call_args.op = "_prepare_node_inputs"
    /\ call_ret = None
    /\ call_ret' = Ret(PrepareNodeInputs(call_args.node, call_args.node_outputs))
    /\ UNCHANGED <<calls, pc, active_executions, execution, dependencies, node_outputs,
                   node_results, executed_nodes, ready_nodes, tasks, executors, instances,
                   instances_created, cancel_ret, call_args, wave, started_in>>

\* LangGraphWorkflowExecutor.resolve_data_reference
\* (langgraph_workflows/workflow_executor.py:16-37); PyNone is None
ResolveDataReference(reference, state) ==
    IF HasDot(reference)
    THEN LET parts == Split(reference)
         IN  IF Len(parts) = 2
             THEN LET field_name == parts[2]
                  IN  IF field_name \in DOMAIN state THEN state[field_name] ELSE PyNone
             ELSE PyNone
    ELSE IF reference \in DOMAIN state THEN state[reference] ELSE PyNone

ResolveDataReferenceArgs ==
    {[op |-> "resolve_data_reference", reference |-> ref, state |-> ns] :
        ref \in RefStrings, ns \in Namespaces}

ResolveDataReferenceCall ==
    /\ call_args.op = "resolve_data_reference"
    /\ call_ret = None
    /\ call_ret' = Ret(ResolveDataReference(call_args.reference, call_args.state))
    /\ UNCHANGED <<calls, pc, active_executions, execution, dependencies, node_outputs,
                   node_results, executed_nodes, ready_nodes, tasks, executors, instances,
                   instances_created, cancel_ret, call_args, wave, started_in>>

\* ---- DataNodeExecutor.execute (node_executors/data_executor.py)
ErrPreExecution == [kind |-> "pre_execution"]     \* "Pre-execution validation failed"
ErrInvalidOperation(operation) == [kind |-> "invalid_operation", operation |-> operation]
ErrRequiresConfig(operation, key) == [kind |-> "requires_config", operation |-> operation, key |-> key]
ErrUnknownOperation(operation) == [kind |-> "unknown_operation", operation |-> operation]
DataOperations == {"pass_through", "extract", "map", "validate", "transform", "store"}

\* the configuration key an operation needs (data_executor.py:80-98)
OperationNeeds(operation) ==
    CASE operation = "extract"   -> "fields"
      [] operation = "map"       -> "mapping"
      [] operation = "validate"  -> "rules"
      [] operation = "transform" -> "transformation"
      [] operation = "store"     -> "storage_type"
      [] OTHER                   -> ""

\* DataNodeExecutor.validate_config (data_executor.py:71-100): the error list
ValidateConfig(config) ==
    LET operation == IF "operation" \in DOMAIN config THEN config.operation ELSE ""
    IN  (IF Truthy(operation) /\ operation \notin DataOperations
         THEN <<ErrInvalidOperation(operation)>> ELSE <<>>)
        \o (IF Truthy(OperationNeeds(operation)) /\ OperationNeeds(operation) \notin DOMAIN config
            THEN <<ErrRequiresConfig(operation, OperationNeeds(operation))>> ELSE <<>>)

\* get_required_inputs of an executor class (data_executor.py:102-104; the
\* default of base.py:67-74 is the empty list)
GetRequiredInputs(class) == IF class = "DataNodeExecutor" THEN <<"data">> ELSE <<>>

\* missing_inputs of pre_execute (base.py:111-113)
MissingInputs(class, inputs) ==
    SelectSeq(GetRequiredInputs(class), LAMBDA input_key : input_key \notin DOMAIN inputs)

\* BaseNodeExecutor.pre_execute (base.py:94-118): a bool, nothing else
PreExecute(class, inputs, config) ==
    /\ ValidateConfig(config) = <<>>
    /\ MissingInputs(class, inputs) = <<>>

\* DataNodeExecutor.execute (data_executor.py:20-69) for the operations that
\* need no further configuration
DataExecute(inputs, config) ==
    IF ~PreExecute("DataNodeExecutor", inputs, config)
    THEN ExecutionResult(FALSE, PyNone, ErrPreExecution)
    ELSE LET operation == IF "operation" \in DOMAIN config THEN config.operation
                          ELSE "pass_through"
         IN  IF operation = "pass_through"
             THEN ExecutionResult(TRUE,
                     PyDict([data |-> IF "data" \in DOMAIN inputs THEN inputs.data ELSE PyNone,
                             metadata |-> PyDict([operation |-> PyScalar("pass_through")])]),
                     None)
             ELSE ExecutionResult(FALSE, PyNone, ErrUnknownOperation(operation))

DataConfigs ==
    {EmptyDict, [operation |-> "pass_through"], [operation |-> "extract"],
     [operation |-> "summarise"]}
DataInputs == UNION {[K -> NsValues] : K \in SUBSET {"data", "metadata"}}
DataExecuteArgs ==
    {[op |-> "execute", inputs |-> inputs, config |-> config] :
        inputs \in DataInputs, config \in DataConfigs}

DataExecuteCall ==
    /\ call_args.op = "execute"
    /\ call_ret = None
    /\ call_ret' = Ret(DataExecute(call_args.inputs, call_args.config))
    /\ UNCHANGED <<calls, pc, active_executions, execution, dependencies, node_outputs,
                   node_results, executed_nodes, ready_nodes, tasks, executors, instances,
                   instances_created, cancel_ret, call_args, wave, started_in>>

\* ---- the LangGraph state and LangGraphWorkflowNodes.data_node
\* The state of the LangGraph variant is one flat dict of strings.  A node
\* function works on a copy of the state it is given and returns that copy
\* with its own keys written (execute_node, lines 268-273); merge_node_result
\* (langgraph_workflows/workflow_executor.py:57-83) then updates the run's
\* state with everything the node returned.  Its bookkeeping under
\* 'node_results' and 'nodes_executed' is read by no node function and is left
\* out.
LgUpdate(state, written) ==
    [k \in DOMAIN state \cup DOMAIN written |->
        IF k \in DOMAIN written THEN written[k] ELSE state[k]]

LgMergeNodeResult(current_state, node_result) == LgUpdate(current_state, node_result)

\* the state after the nodes whose written keys are written[1], written[2], ...
\* ran in this order on the initial state (execute_workflow, lines 172-209)
RECURSIVE LgStateAfter(_, _)
LgStateAfter(initial_state, written) ==
    IF written = <<>> THEN initial_state
    ELSE LET current_state == LgStateAfter(initial_state, SubSeq(written, 1, Len(written) - 1))
             node_result == LgUpdate(current_state, written[Len(written)])
         IN  LgMergeNodeResult(current_state, node_result)

\* data_node's search for its input (workflow_nodes.py:141-175)
LgContentKeys == <<"result", "output", "content", "text", "data">>
NoInputData == "No input data available"

LgDataNodeInput(state) ==
    LET input_source == IF "input_source" \in DOMAIN state THEN state.input_source ELSE ""
        found == SelectSeq(LgContentKeys, LAMBDA key : key \in DOMAIN state /\ Truthy(state[key]))
    IN  IF Truthy(input_source) /\ input_source \in DOMAIN state THEN state[input_source]
        ELSE IF found # <<>> THEN state[found[1]]
        ELSE IF "input_data" \in DOMAIN state THEN state.input_data
        ELSE NoInputData

\* data_node with operation pass_through (workflow_nodes.py:137-205); the
\* timestamp is left out
LgDataNode(state) ==
    LET input_source == IF "input_source" \in DOMAIN state THEN state.input_source ELSE ""
        output_name == IF "output_name" \in DOMAIN state THEN state.output_name ELSE "post_data"
        transformed_data == LgDataNodeInput(state)
    IN  LgUpdate(state,
            [k \in {output_name, "output_data", "content", "post_data", "operation",
                    "input_source", "output_name", "status"} |->
                CASE k = "operation" -> "pass_through"
                  [] k = "input_source" -> input_source
                  [] k = "output_name" -> output_name
                  [] k = "status" -> "completed"
                  [] OTHER -> transformed_data])

\* what the first and the second node of a run wrote: each some of the keys
\* 'result' and 'content', with a value of its own
LgWritten(value) == UNION {[K -> {value}] : K \in SUBSET {"result", "content"}}
LgInitialState == [input_data |-> "input"]

DataNodeArgs ==
    {[op |-> "data_node", written |-> <<w1, w2>>] :
        w1 \in LgWritten("from node 1"), w2 \in LgWritten("from node 2")}

\* the third node of a run is a data node with no input source
DataNodeCall ==
    /\ call_args.op = "data_node"
    /\ call_ret = None
    /\ call_ret' = Ret(LgDataNode(LgStateAfter(LgInitialState, call_args.written)))
    /\ UNCHANGED <<calls, pc, active_executions, execution, dependencies, node_outputs,
                   node_results, executed_nodes, ready_nodes, tasks, executors, instances,
                   instances_created, cancel_ret, call_args, wave, started_in>>

\* ---- the waves of _execute_nodes for a node list and an edge list
\* The while loop of _execute_nodes (workflow_executor.py:158-199) when every
\* node succeeds: the sequence of the sets of node ids started together.
RECURSIVE WavesFrom(_, _, _)
WavesFrom(nodes, deps, executed) ==
    IF Cardinality(executed) >= Len(nodes) THEN <<>>
    ELSE LET ready == ReadyNodes(nodes, deps, executed)
             ids == {nodes[ready[j]].id : j \in 1..Len(ready)}
         IN  IF ready = <<>> THEN <<>>
             ELSE <<ids>> \o WavesFrom(nodes, deps, executed \cup ids)

Waves(nodes, edges) == WavesFrom(nodes, BuildDependencyGraph(nodes, edges), {})

\* the orders a caller can list the same n items in
Orders(n) == {p \in [1..n -> 1..n] : \A i, j \in 1..n : i # j => p[i] # p[j]}
Permuted(list, p) == [i \in 1..Len(list) |-> list[p[i]]]

WavesArgs ==
    {[op |-> "waves", nodes |-> [i \in 1..n |-> NodeOf(i, "data", E)], edges |-> EdgeList(E)] :
        <<n, E>> \in (0..MaxNodes) \X EdgeSets}

\* the same workflow scheduled as listed and as listed in another order
WavesCall ==
    /\ call_args.op = "waves"
    /\ call_ret = None
    /\ \E p \in Orders(Len(call_args.nodes)) : \E q \in Orders(Len(call_args.edges)) :
          call_ret' = Ret([node_order |-> p, edge_order |-> q,
                           listed |-> Waves(call_args.nodes, call_args.edges),
                           shuffled |-> Waves(Permuted(call_args.nodes, p),
                                              Permuted(call_args.edges, q))])
    /\ UNCHANGED <<calls, pc, active_executions, execution, dependencies, node_outputs,
                   node_results, executed_nodes, ready_nodes, tasks, executors, instances,
                   instances_created, cancel_ret, call_args, wave, started_in>>

\* ---- the namespace a later wave resolves its bindings against
\* _execute_nodes seeds node_outputs with the initial inputs
\* (workflow_executor.py:149-153) and stores each successful node's output in
\* the same dict under the node's id (lines 196-199).
SeededNamespace(initial_inputs, producers) ==
    LET nodes == [i \in 1..Len(producers) |->
                    [id |-> producers[i], type |-> "data",
                     data |-> [inputs |-> EmptyDict, config |-> EmptyDict]]]
        results == [i \in 1..Len(producers) |-> ExecutionResult(TRUE, OutputOf(producers[i]), None)]
    IN  ProcessResults(nodes, [i \in 1..Len(producers) |-> i], results, 1, {}, EmptyDict,
                       initial_inputs).node_outputs

\* initial inputs under the keys 'seed' and 'A'; the nodes of the first wave
\* are none, A or B; a node of the next wave binds one of the keys directly
InitialInputsArgs ==
    {[op |-> "initial_inputs", inputs |-> m, producers |-> p, key |-> k] :
        <<m, p, k>> \in
            UNION {{m} \X {<<>>, <<"A">>, <<"B">>} \X DOMAIN m :
                      m \in UNION {[K -> {PyScalar("initial")}] : K \in {{"seed"}, {"seed", "A"}}}}}

InitialInputsCall ==
    /\ call_args.op = "initial_inputs"
    /\ call_ret = None
    /\ LET node == [id |-> "N", type |-> "data",
                    data |-> [inputs |-> [k \in {"in1"} |-> StringBinding(call_args.key)],
                              config |-> EmptyDict]]
       IN  call_ret' = Ret(PrepareNodeInputs(node,
                              SeededNamespace(call_args.inputs, call_args.producers)))
    /\ UNCHANGED <<calls, pc, active_executions, execution, dependencies, node_outputs,
                   node_results, executed_nodes, ready_nodes, tasks, executors, instances,
                   instances_created, cancel_ret, call_args, wave, started_in>>

\* ---- the LangGraph variant: execution order and execute_workflow
\* LangGraphWorkflowExecutor._build_dependency_graph
\* (langgraph_workflows/workflow_executor.py:382-397): a dict keyed by the
\* declared ids, in node-list order (LgKeys), each with the list of its edge
\* sources; an edge whose target is not a key is skipped
LgKeys(nodes) == [i \in 1..Len(nodes) |-> nodes[i].id]

RECURSIVE LgAddEdges(_, _, _)
LgAddEdges(deps, edges, i) ==
    IF i > Len(edges) THEN deps
    ELSE LET source == edges[i].source
             target == edges[i].target
         IN  IF target \in DOMAIN deps
             THEN LgAddEdges([deps EXCEPT ![target] = Append(@, source)], edges, i + 1)
             ELSE LgAddEdges(deps, edges, i + 1)

LgBuildDependencyGraph(nodes, edges) ==
    LgAddEdges([k \in {nodes[i].id : i \in 1..Len(nodes)} |-> <<>>], edges, 1)

\* `current in deps`
InList(x, list) == \E j \in 1..Len(list) : list[j] = x

\* the inner loop of _topological_sort (lines 415-419) for one `current`
RECURSIVE LgReduce(_, _, _, _, _, _)
LgReduce(keys, deps, current, in_degree, queue, i) ==
    IF i > Len(keys) THEN [in_degree |-> in_degree, queue |-> queue]
    ELSE LET node == keys[i]
         IN  IF InList(current, deps[node])
             THEN LET degree == in_degree[node] - 1
                  IN  LgReduce(keys, deps, current, [in_degree EXCEPT ![node] = degree],
                               IF degree = 0 THEN Append(queue, node) ELSE queue, i + 1)
             ELSE LgReduce(keys, deps, current, in_degree, queue, i + 1)

\* the while loop of _topological_sort (lines 410-419)
RECURSIVE LgKahn(_, _, _, _, _)
LgKahn(keys, deps, in_degree, queue, result) ==
    IF queue = <<>> THEN result
    ELSE LET current == Head(queue)
             after == LgReduce(keys, deps, current, in_degree, Tail(queue), 1)
         IN  LgKahn(keys, deps, after.in_degree, after.queue, Append(result, current))

\* _topological_sort (lines 399-421)
LgTopologicalSort(keys, deps) ==
    LET in_degree == [n \in DOMAIN deps |-> Len(deps[n])]
        queue == SelectSeq(keys, LAMBDA n : in_degree[n] = 0)
    IN  LgKahn(keys, deps, in_degree, queue, <<>>)

\* _get_execution_order (lines 348-351)
LgGetExecutionOrder(nodes, edges) ==
    LgTopologicalSort(LgKeys(nodes), LgBuildDependencyGraph(nodes, edges))

\* edge lists of up to MaxEdges edges, the same edge more than once included
EdgeLists ==
    UNION {[1..k -> {[source |-> NodeName[e[1]], target |-> NodeName[e[2]]] : e \in IndexEdges}] :
              k \in 0..MaxEdges}

\* the node list the call is given; its edge list is drawn when it is made
ExecutionOrderArgs ==
    {[op |-> "_get_execution_order",
      nodes |-> [i \in 1..n |-> [id |-> NodeName[i], type |-> "data"]]] : n \in 0..MaxNodes}

ExecutionOrderCall ==
    /\ call_args.op = "_get_execution_order"
    /\ call_ret = None
    /\ \E edges \in EdgeLists :
          call_ret' = Ret([edges |-> edges,
                           order |-> LgGetExecutionOrder(call_args.nodes, edges)])
    /\ UNCHANGED <<calls, pc, active_executions, execution, dependencies, node_outputs,
                   node_results, executed_nodes, ready_nodes, tasks, executors, instances,
                   instances_created, cancel_ret, call_args, wave, started_in>>

\* ---- LangGraphWorkflowExecutor.execute_workflow
\* (langgraph_workflows/workflow_executor.py:165-259)
\* What one pass of the loop over the order leaves behind (lines 188-214).
\* Every node function returns the state dict it was handed
\* (workflow_nodes.py: `return state`), so the node_result that
\* merge_node_result stores under node_results[node_id] (line 69) is a dict
\* that itself holds node_results; only the dict built by the except clause of
\* execute_node (lines 339-346) is a fresh one.
LgNodeRun(node, outcome) ==
    [node_id |-> node.id,
     status |-> LgExecuteNode(node.type, outcome).result.status,
     result_is_state |-> outcome # "raised"]

LgNodesExecuted(nodes, order, outcomes) ==
    [j \in 1..Len(order) |->
        LgNodeRun(CHOOSE node \in {nodes[i] : i \in 1..Len(nodes)} : node.id = order[j],
                  outcomes[j])]

\* _make_serializable (lines 423-440) over node_results and nodes_executed
\* (lines 228-246): it descends into every dict it meets and keeps no record
\* of the dicts it has visited, so a node result that is the state leads it
\* from node_results back to node_results until Python raises RecursionError.
ErrRecursion == [kind |-> "recursion"]   \* "maximum recursion depth exceeded ..."
LgSerializable(nodes_executed) ==
    IF \E j \in 1..Len(nodes_executed) : nodes_executed[j].result_is_state
    THEN Raised(ErrRecursion)
    ELSE Ret([j \in 1..Len(nodes_executed) |->
                 [node_id |-> nodes_executed[j].node_id, status |-> nodes_executed[j].status]])

\* execute_workflow: `executed` is the sequence of nodes handed to
\* execute_node (printed at lines 189 and 211), `result` the dict returned:
\* the one of lines 217-248, or the one of the except clause (lines 250-259)
LgExecuteWorkflow(nodes, edges, outcomes) ==
    LET execution_order == LgGetExecutionOrder(nodes, edges)
        nodes_executed == LgNodesExecuted(nodes, execution_order, outcomes)
        serializable == LgSerializable(nodes_executed)
    IN  [executed |-> nodes_executed,
         result |-> IF serializable.kind = "exception"
                    THEN [status |-> "failed", error |-> serializable.error,
                          nodes_executed |-> <<>>]
                    ELSE [status |-> "completed", error |-> None,
                          nodes_executed |-> serializable.value]]

LgWorkflowArgs ==
    {[op |-> "lg_execute_workflow",
      nodes |-> [i \in 1..n |-> [id |-> NodeName[i], type |-> "data"]], edges |-> EdgeList(E)] :
        <<n, E>> \in (0..MaxNodes) \X EdgeSets}

LgWorkflowCall ==
    /\ call_args.op = "lg_execute_workflow"
    /\ call_ret = None
    /\ \E outcomes \in [1..Len(LgGetExecutionOrder(call_args.nodes, call_args.edges)) -> LgNodeOutcomes] :
          call_ret' = Ret(LgExecuteWorkflow(call_args.nodes, call_args.edges, outcomes))
    /\ UNCHANGED <<calls, pc, active_executions, execution, dependencies, node_outputs,
                   node_results, executed_nodes, ready_nodes, tasks, executors, instances,
                   instances_created, cancel_ret, call_args, wave, started_in>>

\* ---- the specification of the single calls
CallArgs ==
    ExecuteNodeArgs \cup PrepareNodeInputsArgs \cup ResolveDataReferenceArgs \cup DataExecuteArgs
        \cup DataNodeArgs \cup WavesArgs \cup InitialInputsArgs \cup ExecutionOrderArgs
        \cup LgWorkflowArgs

CallInit ==
    /\ calls = [r \in RunIds |-> NoCall]
    /\ ExecutorIdle
    /\ RegistryAtImport
    /\ call_args \in CallArgs
    /\ call_ret = None

CallNext ==
    \/ ExecuteNodeCall
    \/ PrepareNodeInputsCall
    \/ ResolveDataReferenceCall
    \/ DataExecuteCall
    \/ DataNodeCall
    \/ WavesCall
    \/ InitialInputsCall
    \/ ExecutionOrderCall
    \/ LgWorkflowCall

CallSpec == CallInit /\ [][CallNext]_vars

\* ------------------------------------------------------------------ C12
\* C12 as stated, for the LangGraph path: execute_node called for a type that
\* no branch handles invokes no node function and returns a failed result.
\* (On the WorkflowExecutor path NodeStartsWithoutExecutor does fail the step
\* and invokes nothing.)
C12_UnknownTypeFails ==
    (call_args.op = "execute_node" /\ call_ret # None /\ call_args.node_type \notin LgNodeTypes)
        => /\ call_ret.value.invoked = ""
           /\ call_ret.value.result.status = "failed"

\* ------------------------------------------------------------------ C13
\* C13 as stated: the engine checks a node before it calls execute, so
\* execute is never entered for a node whose resolved inputs lack a required
\* input of its executor or whose config fails validate_config.
C13_CheckedBeforeExecute ==
    \A r \in RunIds : \A i \in 1..Len(tasks[r]) :
        tasks[r][i].state = "awaiting"
            => /\ MissingInputs(instances[TaskNode(r, i).type].class,
                                execution[r].steps[TaskStep(r, i)].inputs) = <<>>
               /\ ValidateConfig(TaskNode(r, i).data.config) = <<>>

\* ------------------------------------------------------------------ C14
\* what an error text mentions: the input keys and the validation messages
\* that are part of it (the fixed pre-execution text has no part)
Mentions(e) ==
    (IF "keys" \in DOMAIN e THEN e.keys ELSE {})
        \cup (IF "messages" \in DOMAIN e THEN e.messages ELSE {})

\* C14 as stated: the error of a node that fails the pre-execution check
\* names every missing required input key, and carries every validation
\* error of its config.
C14_ErrorNamesCause ==
    (call_args.op = "execute" /\ call_ret # None)
        => LET missing == MissingInputs("DataNodeExecutor", call_args.inputs)
               config_errors == ValidateConfig(call_args.config)
           IN  /\ \A j \in 1..Len(missing) : missing[j] \in Mentions(call_ret.value.error)
               /\ \A j \in 1..Len(config_errors) :
                     config_errors[j] \in Mentions(call_ret.value.error)

\* ------------------------------------------------------------ the registry
\* NodeExecutorRegistry (node_executors/registry.py) driven directly by its
\* callers: register, get_executor and clear_cache in any order.  The type
\* argument is a registered type, another type, or the empty string; the class
\* argument is a subclass of BaseNodeExecutor or some other class.
RegistryTypes == {"data", "email", ""}
ExecutorClasses == {"DataNodeExecutor", "EmailExecutor"}
OtherClass == "dict"
ErrNotExecutor == [kind |-> "value_error"]   \* "Executor class must inherit from BaseNodeExecutor"

\* issubclass(executor_class, BaseNodeExecutor)
IsSubclass(executor_class) == executor_class \in ExecutorClasses

\* register (registry.py:14-26)
Register(node_type, executor_class) ==
    /\ call_args' = [op |-> "register", node_type |-> node_type, executor_class |-> executor_class]
    /\ IF ~IsSubclass(executor_class)
       THEN /\ call_ret' = Raised(ErrNotExecutor)
            /\ UNCHANGED executors
       ELSE /\ executors' = [t \in DOMAIN executors \cup {node_type} |->
                                IF t = node_type THEN executor_class ELSE executors[t]]
            /\ call_ret' = Ret(None)
    /\ UNCHANGED <<calls, pc, active_executions, execution, dependencies, node_outputs,
                   node_results, executed_nodes, ready_nodes, tasks, instances,
                   instances_created, cancel_ret, wave, started_in>>

\* get_executor (registry.py:28-47) called directly
GetExecutorCall(node_type) ==
    /\ GetExecutor(node_type).created <= MaxInstances
    /\ call_args' = [op |-> "get_executor", node_type |-> node_type]
    /\ call_ret' = Ret(GetExecutor(node_type).executor)
    /\ instances' = GetExecutor(node_type).instances
    /\ instances_created' = GetExecutor(node_type).created
    /\ UNCHANGED <<calls, pc, active_executions, execution, dependencies, node_outputs,
                   node_results, executed_nodes, ready_nodes, tasks, executors,
                   cancel_ret, wave, started_in>>

\* clear_cache (registry.py:105-108)
ClearCache ==
    /\ call_args' = [op |-> "clear_cache"]
    /\ call_ret' = Ret(None)
    /\ instances' = EmptyDict
    /\ UNCHANGED <<calls, pc, active_executions, execution, dependencies, node_outputs,
                   node_results, executed_nodes, ready_nodes, tasks, executors,
                   instances_created, cancel_ret, wave, started_in>>

RegistryInit ==
    /\ calls = [r \in RunIds |-> NoCall]
    /\ ExecutorIdle
    /\ RegistryAtImport
    /\ call_args = NoArgs
    /\ call_ret = None

RegistryNext ==
    \/ \E t \in RegistryTypes : \E c \in ExecutorClasses \cup {OtherClass} : Register(t, c)
    \/ \E t \in RegistryTypes : GetExecutorCall(t)
    \/ ClearCache

RegistrySpec == RegistryInit /\ [][RegistryNext]_vars

\* ------------------------------------------------------------------ C15
\* C15 as stated: get_executor(t) returns an instance of the class most
\* recently registered for t, whatever was registered or created before.
C15_LastRegistrationWins ==
    (call_args.op = "get_executor" /\ call_ret # None /\ call_ret.value # None)
        => call_ret.value.class = executors[call_args.node_type]

\* ------------------------------------------------------------------ C16
\* One step of the registry keeps the cache: register creates no instance; a
\* get_executor for a cached type returns the cached instance and creates
\* none; a get_executor for a registered type that is not cached creates
\* exactly one instance, caches and returns it; and every cached instance
\* stays cached, except (when `cleared` is allowed) across clear_cache, which
\* empties the cache.
CacheStep(cleared) ==
    /\ (\E t \in RegistryTypes : \E c \in ExecutorClasses \cup {OtherClass} : Register(t, c))
            => instances' = instances /\ instances_created' = instances_created
    /\ \A t \in RegistryTypes :
          GetExecutorCall(t)
              => /\ t \in DOMAIN instances
                        => /\ call_ret' = Ret(instances[t])
                           /\ instances_created' = instances_created
                 /\ (t \in DOMAIN executors /\ t \notin DOMAIN instances)
                        => /\ instances_created' = instances_created + 1
                           /\ t \in DOMAIN instances'
                           /\ call_ret' = Ret(instances'[t])
                           /\ \A u \in DOMAIN instances : instances'[t] # instances[u]
                 /\ t \notin DOMAIN executors
                        => call_ret' = Ret(None) /\ instances_created' = instances_created
    /\ IF cleared /\ ClearCache
       THEN instances' = EmptyDict /\ instances_created' = instances_created
       ELSE \A t \in DOMAIN instances : t \in DOMAIN instances' /\ instances'[t] = instances[t]

\* C16 as stated: once get_executor(t) has created the instance of t, every
\* later get_executor(t) returns that instance, over the registry's whole
\* lifetime and whatever registry operations come in between.
C16_CachedForLifetime == [][CacheStep(FALSE)]_vars

\* C16 amended: register creates no instance; the first get_executor(t) for a
\* registered t creates exactly one instance, and every later get_executor(t)
\* returns that same instance until clear_cache is called; clear_cache empties
\* the cache, and the next get_executor(t) creates one new instance.
C16_CachedUntilCleared == [][CacheStep(TRUE)]_vars

\* get_executor("data") returned the instance made first although another
\* instance was made since
C16_Witness ==
    /\ call_args = [op |-> "get_executor", node_type |-> "data"]
    /\ "data" \in DOMAIN instances /\ instances["data"].id = 1
    /\ call_ret = Ret(instances["data"])
    /\ instances_created = 2

\* ------------------------------------------------------------------ C17
\* C17 as stated: register with a type that is not a non-empty string reports
\* an error and registers nothing.
C17_RejectsEmptyType ==
    /\ "" \notin DOMAIN executors
    /\ (call_args.op = "register" /\ call_args.node_type = "") => call_ret.kind = "exception"

\* ------------------------------------------------------------------ C18
\* the binding a node declares for input k
BindingOf(node, k) == node.data.inputs[k]

\* C18: a string binding "B" without a separator resolves to namespace[B]
\* whenever B is a key of the namespace, whatever the namespace holds there and
\* whatever the node's other bindings are.
C18_DirectBinding ==
    (call_args.op = "_prepare_node_inputs" /\ call_ret # None)
        => \A k \in DOMAIN call_args.node.data.inputs :
              LET spec == BindingOf(call_args.node, k)
              IN  (spec.t = "str" /\ ~HasDot(spec.ref) /\ spec.ref \in DOMAIN call_args.node_outputs)
                      => /\ k \in DOMAIN call_ret.value
                         /\ call_ret.value[k] = call_args.node_outputs[spec.ref]

\* "A" bound to a mapping and "x" bound to a scalar, both resolved directly
C18_Witness ==
    /\ call_args.op = "_prepare_node_inputs" /\ call_ret # None
    /\ DOMAIN call_args.node.data.inputs = {"in1", "in2"}
    /\ BindingOf(call_args.node, "in1") = StringBinding("A")
    /\ BindingOf(call_args.node, "in2") = StringBinding("x")
    /\ DOMAIN call_args.node_outputs = {"A", "x"}
    /\ IsDict(call_args.node_outputs["A"]) /\ ~IsDict(call_args.node_outputs["x"])
    /\ call_ret.value = [in1 |-> call_args.node_outputs["A"], in2 |-> call_args.node_outputs["x"]]

\* ------------------------------------------------------------------ C19
\* value v is what the dotted reference "P.f" stands for in namespace ns
\* (P a key of ns): ns[P][f] when ns[P] is a mapping that contains f, the
\* whole of ns[P] when it is not a mapping
IsDottedValue(v, ns, P, f) ==
    /\ (IsDict(ns[P]) /\ f \in DOMAIN ns[P].v) => v = ns[P].v[f]
    /\ ~IsDict(ns[P]) => v = ns[P]

\* C19 as stated: a string binding "P.f" with P in the namespace resolves to
\* the value the dotted reference stands for, taken from P's output, in
\* _prepare_node_inputs and in resolve_data_reference alike.
C19_DottedBinding ==
    /\ (call_args.op = "_prepare_node_inputs" /\ call_ret # None)
          => \A k \in DOMAIN call_args.node.data.inputs :
                LET spec == BindingOf(call_args.node, k)
                IN  (spec.t = "str" /\ Len(Split(spec.ref)) = 2
                        /\ Split(spec.ref)[1] \in DOMAIN call_args.node_outputs)
                        => /\ k \in DOMAIN call_ret.value
                           /\ IsDottedValue(call_ret.value[k], call_args.node_outputs,
                                            Split(spec.ref)[1], Split(spec.ref)[2])
    /\ (call_args.op = "resolve_data_reference" /\ call_ret # None
            /\ Len(Split(call_args.reference)) = 2
            /\ Split(call_args.reference)[1] \in DOMAIN call_args.state)
          => IsDottedValue(call_ret.value, call_args.state,
                           Split(call_args.reference)[1], Split(call_args.reference)[2])

\* ------------------------------------------------------------------ C20
\* C20 as stated: in every namespace the structured binding {source: P,
\* field: f} and the string binding "P.f" resolve to the same value, or are
\* both absent.
C20_StructuredIsDotted ==
    (call_args.op = "_prepare_node_inputs" /\ call_ret # None)
        => \A k1, k2 \in DOMAIN call_args.node.data.inputs :
              LET structured == BindingOf(call_args.node, k1)
                  dotted == BindingOf(call_args.node, k2)
              IN  (/\ structured.t = "dict" /\ dotted.t = "str"
                   /\ DOMAIN structured = {"t", "source", "field"}
                   /\ Len(Split(dotted.ref)) = 2
                   /\ Split(dotted.ref) = <<structured.source, structured.field>>)
                      => /\ k1 \in DOMAIN call_ret.value <=> k2 \in DOMAIN call_ret.value
                         /\ k1 \in DOMAIN call_ret.value
                                => call_ret.value[k1] = call_ret.value[k2]

\* ------------------------------------------------------------------ C21
\* the namespace key a binding names ("" when a structured binding has no source)
KeyNamed(spec) ==
    IF spec.t = "str" THEN spec.ref
    ELSE IF "source" \in DOMAIN spec THEN spec.source ELSE ""

\* C21: _prepare_node_inputs returns (it does not raise), the input of a
\* binding that names a key absent from the namespace is left out of the
\* result, and every binding that names a key of the namespace is resolved.
C21_AbsentLeftOut ==
    (call_args.op = "_prepare_node_inputs" /\ call_ret # None)
        => /\ call_ret.kind = "returned"
           /\ DOMAIN call_ret.value =
                 {k \in DOMAIN call_args.node.data.inputs :
                     KeyNamed(BindingOf(call_args.node, k)) \in DOMAIN call_args.node_outputs}

\* in1 names B, which the namespace does not hold; in2 names A, which it holds
C21_Witness ==
    /\ call_args.op = "_prepare_node_inputs" /\ call_ret # None
    /\ DOMAIN call_args.node.data.inputs = {"in1", "in2"}
    /\ BindingOf(call_args.node, "in1") = StructuredBinding("B", "x")
    /\ BindingOf(call_args.node, "in2") = StringBinding("A")
    /\ DOMAIN call_args.node_outputs = {"A"}
    /\ call_ret = Ret([in2 |-> call_args.node_outputs["A"]])

\* ------------------------------------------------------------------ C22
\* C22: input resolution is idempotent and read-only.  The call leaves the
\* node and the namespace it was given as they were, and resolving the same
\* bindings again against the namespace as the call left it gives the result
\* the call returned.
C22_IdempotentReadOnly ==
    /\ []((call_args.op = "_prepare_node_inputs" /\ call_ret # None)
            => call_ret = Ret(PrepareNodeInputs(call_args.node, call_args.node_outputs)))
    /\ [][call_args.op = "_prepare_node_inputs" => call_args' = call_args]_vars

\* a structured binding and a string binding, both resolved
C22_Witness ==
    /\ call_args.op = "_prepare_node_inputs" /\ call_ret # None
    /\ BindingOf(call_args.node, "in1") = StructuredBinding("A", "x")
    /\ "in2" \in DOMAIN call_args.node.data.inputs
    /\ BindingOf(call_args.node, "in2") = StringBinding("A.x")
    /\ DOMAIN call_args.node_outputs = {"A", "A.x"}
    /\ call_ret = Ret([in1 |-> PyScalar("5"), in2 |-> PyScalar("hello")])

\* ------------------------------------------------------------------ C23
\* C23 as stated: a node that names no input takes its input from the
\* conventional keys of the most recently completed node's output only: when
\* that node wrote such a key the input is its value, and a value that only an
\* older node wrote is never taken.
C23_FallbackLastNodeOnly ==
    (call_args.op = "data_node" /\ call_ret # None)
        => LET last == call_args.written[2]
           IN  /\ DOMAIN last # {} => call_ret.value.content = "from node 2"
               /\ call_ret.value.content # "from node 1"

\* ------------------------------------------------------------------ C24
\* C24: listing the nodes and the edges of a workflow in another order does
\* not change the waves: the same sets of nodes are started together, in the
\* same succession.
C24_WavesOrderIndependent ==
    (call_args.op = "waves" /\ call_ret # None)
        => call_ret.value.listed = call_ret.value.shuffled

\* three nodes listed in reverse with both edges swapped: two waves either way
C24_Witness ==
    /\ call_args.op = "waves"
    /\ call_ret # None
    /\ Len(call_args.nodes) = 3
    /\ call_ret.value.node_order = <<3, 2, 1>>
    /\ call_ret.value.edge_order = <<2, 1>>
    /\ call_ret.value.shuffled = <<{"A", "B"}, {"C"}>>

\* ------------------------------------------------------------------ C25
\* a chain of k edges of the workflow ends at node n
RECURSIVE ChainEnds(_, _, _)
ChainEnds(w, n, k) ==
    \/ k = 0
    \/ \E i \in 1..Len(w.edges) : w.edges[i].target = n /\ ChainEnds(w, w.edges[i].source, k - 1)

LongestChain(w, n, k) == ChainEnds(w, n, k) /\ ~ChainEnds(w, n, k + 1)

SourcesExecuted(r, n) ==
    \A i \in 1..Len(calls[r].edges) :
        calls[r].edges[i].target = n => calls[r].edges[i].source \in executed_nodes[r]

\* C25: a wave is maximal.  While a wave is in flight its nodes are exactly
\* the declared nodes that are not yet executed and whose edge sources are all
\* executed; only they start in it and, when the barrier is reached, all of
\* them have started.  For a graph whose edge endpoints are all declared, the
\* nodes of wave k are exactly those whose longest dependency chain has k-1
\* edges, and a node that started in wave k has such a chain.
C25_WaveMaximal ==
    [](\A r \in RunIds :
          /\ pc[r] = "gather" =>
                /\ InWave(r) = {n \in Declared(calls[r]) :
                                   n \notin executed_nodes[r] /\ SourcesExecuted(r, n)}
                /\ \A n \in Declared(calls[r]) : started_in[r][n] = wave[r] => n \in InWave(r)
                /\ GatherDone(r) => \A n \in InWave(r) : started_in[r][n] = wave[r]
                /\ EndpointsDeclared(calls[r]) =>
                      InWave(r) = {n \in Declared(calls[r]) : LongestChain(calls[r], n, wave[r] - 1)}
          /\ \A n \in Declared(calls[r]) :
                (EndpointsDeclared(calls[r]) /\ started_in[r][n] > 0)
                    => LongestChain(calls[r], n, started_in[r][n] - 1))

\* the diamond's end: A and B started in wave 1, C in wave 2
C25_Witness ==
    /\ HasEdge(calls[Run1], "A", "C") /\ HasEdge(calls[Run1], "B", "C")
    /\ wave[Run1] = 2 /\ InWave(Run1) = {"C"}
    /\ started_in[Run1] = [n \in DOMAIN started_in[Run1] |-> IF n = "C" THEN 2 ELSE 1]

\* ------------------------------------------------------------------ C26
NodeNamed(w, n) == w.nodes[CHOOSE i \in 1..Len(w.nodes) : w.nodes[i].id = n]

\* the node was handed an ExecutionContext: its task got past get_executor
GivenContext(r, n) ==
    StatusOf(r, n) # PENDING /\ NodeNamed(calls[r], n).type \in DOMAIN executors

\* C26: a node binds an input to each of its dependencies.  The inputs of its
\* context, which are the inputs recorded on its step, hold for every
\* dependency exactly the output that dependency's executor returned in this
\* run, and nothing but the bound inputs.
C26_DataFlow ==
    [](\A r \in RunIds : \A t \in Declared(calls[r]) :
          (pc[r] # "idle" /\ GivenContext(r, t))
              => /\ DOMAIN StepOf(r, t).inputs = DOMAIN NodeNamed(calls[r], t).data.inputs
                 /\ \A s \in Declared(calls[r]) :
                       HasEdge(calls[r], s, t)
                           => /\ s \in DOMAIN StepOf(r, t).inputs
                              /\ StepOf(r, s).result.kind = "result"
                              /\ StepOf(r, t).inputs[s] = StepOf(r, s).result.output
                              /\ StepOf(r, t).inputs[s] = OutputOf(s))

\* the diamond's end runs with the outputs of both of its dependencies
C26_Witness ==
    /\ pc[Run1] = "gather" /\ "C" \in Declared(calls[Run1])
    /\ HasEdge(calls[Run1], "A", "C") /\ HasEdge(calls[Run1], "B", "C")
    /\ GivenContext(Run1, "C")
    /\ StepOf(Run1, "C").inputs = [s \in {"A", "B"} |-> OutputOf(s)]

\* ------------------------------------------------------------------ C27
StepIds(r) == [j \in 1..Len(execution[r].steps) |-> execution[r].steps[j].node_id]
NoneStarted(r) == \A i \in 1..Len(tasks[r]) : tasks[r][i].state = "created"

\* C27: from the start of a run its step list holds one step per node of the
\* graph, in the order of the node list, and all are Pending until the first
\* node starts; no step is ever added, removed or replaced, and a step changes
\* only in a step of the task of the node it names.
C27_OneStepPerNode ==
    /\ [](\A r \in RunIds : pc[r] # "idle" =>
            /\ StepIds(r) = [j \in 1..Len(calls[r].nodes) |-> calls[r].nodes[j].id]
            /\ \A j \in 1..Len(calls[r].nodes) :
                  execution[r].steps[j].node_type = calls[r].nodes[j].type
            /\ (wave[r] <= 1 /\ NoneStarted(r)) =>
                  \A j \in 1..Len(execution[r].steps) :
                      execution[r].steps[j] = ExecutionStep(calls[r].nodes[j].id, calls[r].nodes[j].type))
    /\ [][\A r \in RunIds : pc[r] # "idle" =>
            /\ StepIds(r)' = StepIds(r)
            /\ \A j \in 1..Len(execution[r].steps) :
                  execution[r].steps[j]' # execution[r].steps[j]
                      => \E i \in 1..Len(tasks[r]) :
                            /\ tasks[r][i]' # tasks[r][i]
                            /\ TaskNode(r, i).id = execution[r].steps[j].node_id]_vars

\* three steps, all Pending, when the first wave has been handed to gather
C27_Witness ==
    /\ pc[Run1] = "gather" /\ wave[Run1] = 1 /\ NoneStarted(Run1)
    /\ Len(execution[Run1].steps) = 3
    /\ \A j \in 1..3 : execution[Run1].steps[j].status = PENDING

\* ------------------------------------------------------------------ C28
\* The moves of one step's record.  Lines 219-220 of workflow_executor.py set
\* status Running and start_time together; a task that fails before its first
\* suspension (no executor for the type) goes on to Failed in the same
\* uninterrupted stretch, so its record shows Pending with no start time and
\* then Failed with one.
StepMoves(old, new) ==
    \/ new.status = old.status
    \/ old.status = PENDING /\ new.status = RUNNING /\ new.start_time
    \/ old.status = PENDING /\ ~old.start_time /\ new.status = FAILED /\ new.start_time
    \/ old.status = RUNNING /\ new.status \in {COMPLETED, FAILED}

\* C28: a step goes Pending -> Running -> Completed or Pending -> Running ->
\* Failed; a Completed or Failed step never changes again; and a node is
\* handed to its executor at most once in a run: its task starts only from
\* Pending, and the wave it started in is never another one later.
C28_StepStatusMachine ==
    [][\A r \in RunIds : pc[r] # "idle" =>
          \A j \in 1..Len(execution[r].steps) :
              LET old == execution[r].steps[j]
                  new == execution[r].steps[j]'
                  n   == old.node_id
              IN  /\ StepMoves(old, new)
                  /\ Terminal(old.status) => new = old
                  /\ started_in[r][n] > 0 => started_in[r][n]' = started_in[r][n]
                  /\ started_in[r][n]' # started_in[r][n] => old.status = PENDING]_vars

\* one node completed and another failed, both after running
C28_Witness ==
    /\ pc[Run1] # "idle"
    /\ \E j, k \in 1..Len(execution[Run1].steps) :
          /\ execution[Run1].steps[j].status = COMPLETED
          /\ execution[Run1].steps[k].status = FAILED
          /\ execution[Run1].steps[k].result # None

\* ------------------------------------------------------------------ C29
AllTasksDone(r) == \A i \in 1..Len(tasks[r]) : tasks[r][i].state = "done"

\* C29: the namespace of a run is written only when the run starts and by the
\* coordinator when every task of the wave in flight is done.  So while a node
\* of the wave is Running the namespace is what it was when the wave started:
\* it holds no output of a node of this wave, and the inputs of every node
\* running in the wave are those this namespace resolves to.
C29_NamespaceAfterBarrier ==
    /\ [](\A r \in RunIds : pc[r] = "gather" =>
            /\ DOMAIN node_outputs[r] \cap InWave(r) = {}
            /\ \A i \in 1..Len(tasks[r]) :
                  tasks[r][i].state = "awaiting"
                      => execution[r].steps[TaskStep(r, i)].inputs
                            = PrepareNodeInputs(TaskNode(r, i), node_outputs[r]))
    /\ [][\A r \in RunIds :
            node_outputs[r]' # node_outputs[r]
                => pc[r] = "idle" \/ (pc[r] = "gather" /\ AllTasksDone(r))]_vars

\* A has completed and B of the same wave is still running: the namespace
\* holds the initial inputs only
C29_Witness ==
    /\ pc[Run1] = "gather" /\ InWave(Run1) = {"A", "B"}
    /\ StatusOf(Run1, "A") = COMPLETED /\ StatusOf(Run1, "B") = RUNNING
    /\ node_outputs[Run1] = InitialInputs

\* ------------------------------------------------------------------ C30
\* Two calls of execute_workflow on the one WorkflowExecutor, their coroutines
\* interleaved by the event loop.  The first runs nodes A and B, the second
\* nodes C and B; in the first, B may bind an input to C, which only the
\* second run produces.
Run2 == CHOOSE r \in RunIds : r # Run1
EdgeAB == <<1, 2>>
EdgeCB == <<3, 2>>

FirstWorkflows ==
    {[nodes |-> <<NodeOf(1, "data", E), NodeOf(2, type, E)>>, edges |-> EdgeList(E)] :
        <<type, E>> \in NodeTypes \X {{}, {EdgeAB}, {EdgeCB}}}

SecondWorkflows ==
    {[nodes |-> <<NodeOf(3, type, E), NodeOf(2, "data", E)>>, edges |-> EdgeList(E)] :
        <<type, E>> \in NodeTypes \X {{}, {EdgeCB}}}

TwoRunInit ==
    /\ \E w1 \in FirstWorkflows : \E w2 \in SecondWorkflows :
          calls = [r \in RunIds |-> IF r = Run1 THEN w1 ELSE w2]
    /\ ExecutorIdle
    /\ RegistryAtImport
    /\ call_args = NoArgs
    /\ call_ret = None

TwoRunSpec == TwoRunInit /\ [][Next]_vars

\* everything the engine holds for run r
RunState(r) ==
    <<pc[r], r \in active_executions, execution[r], dependencies[r], node_outputs[r],
      node_results[r], executed_nodes[r], ready_nodes[r], tasks[r], wave[r], started_in[r]>>

\* C30: two runs interleaved.  The namespace of a run holds the initial inputs
\* and outputs of this run's nodes only, each the output recorded on this
\* run's step; every input a node was given is such an output; and no step of
\* the engine changes what it holds for two runs at once, so a run that
\* proceeds, finishes or is cancelled leaves the other run's record, steps,
\* namespace and entry in the table of active runs as they were.
C30_RunIsolation ==
    /\ [](\A r \in RunIds : pc[r] # "idle" =>
            /\ DOMAIN node_outputs[r] \subseteq Declared(calls[r]) \cup DOMAIN InitialInputs
            /\ \A n \in DOMAIN node_outputs[r] \cap Declared(calls[r]) :
                  /\ StepOf(r, n).result # None
                  /\ node_outputs[r][n] = StepOf(r, n).result.output
            /\ \A t \in Declared(calls[r]) : \A k \in DOMAIN StepOf(r, t).inputs :
                  /\ k \in Declared(calls[r])
                  /\ Succeeded(StepOf(r, k))
                  /\ StepOf(r, t).inputs[k] = StepOf(r, k).result.output)
    /\ [][\A r1, r2 \in RunIds :
            r1 # r2 => RunState(r1)' = RunState(r1) \/ RunState(r2)' = RunState(r2)]_vars

\* the first run has finished and left the table while the second, which
\* produced C, is still in the table with B running on C's output
C30_Witness ==
    /\ pc[Run1] = "returned" /\ Run1 \notin active_executions
    /\ HasEdge(calls[Run1], "C", "B")
    /\ pc[Run2] = "gather" /\ Run2 \in active_executions
    /\ StatusOf(Run2, "B") = RUNNING
    /\ StepOf(Run2, "B").inputs = [k \in {"C"} |-> OutputOf("C")]

TargetDeclared(w) ==
    [nodes |-> w.nodes,
     edges |-> SelectSeq(w.edges, LAMBDA e : e.target \in Declared(w))]

HasUndeclaredTarget(w) == \E i \in 1..Len(w.edges) : w.edges[i].target \notin Declared(w)

AllCompleted(r) == \A n \in Declared(calls[r]) : StatusOf(r, n) = COMPLETED

\* C32: an edge whose target is not declared changes nothing.  The run has
\* one step per declared node; every declared node has the dependencies it
\* has in the graph without such edges, and every wave is the wave of that
\* graph; a run whose nodes all completed returns without error, and a run
\* that is failed for want of a ready node would be failed for the graph
\* without such edges as well.
C32_UndeclaredTargetIgnored ==
    [](\A r \in RunIds : pc[r] # "idle" =>
          LET w    == calls[r]
              kept == BuildDependencyGraph(w.nodes, TargetDeclared(w).edges)
          IN  /\ Len(execution[r].steps) = Len(w.nodes)
              /\ \A n \in Declared(w) : DepsOf(dependencies[r], n) = DepsOf(kept, n)
              /\ pc[r] = "gather" =>
                    ready_nodes[r] = ReadyNodes(w.nodes, kept, executed_nodes[r])
              /\ (Returned(r) /\ AllCompleted(r)) => execution[r].error = None
              /\ (Returned(r) /\ execution[r].error # None /\ execution[r].error.kind = "circular")
                    => /\ ReadyNodes(w.nodes, kept, executed_nodes[r]) = <<>>
                       /\ Declared(w) \ executed_nodes[r] # {})

\* A runs and completes although the one edge of the workflow points from A
\* to a node that is not declared
C32_Witness ==
    /\ Returned(Run1) /\ Len(calls[Run1].nodes) = 1
    /\ HasEdge(calls[Run1], "A", "B")
    /\ StatusOf(Run1, "A") = COMPLETED
    /\ execution[Run1].status = COMPLETED /\ execution[Run1].error = None

\* ------------------------------------------------------------------ C33
\* t is reachable from s by at least one and at most k edges, through declared
\* and undeclared ids alike
RECURSIVE ReachesById(_, _, _, _)
ReachesById(w, s, t, k) ==
    /\ k > 0
    /\ \/ HasEdge(w, s, t)
       \/ \E m \in NodeIds : HasEdge(w, s, m) /\ ReachesById(w, m, t, k - 1)

OnEdgeCycle(w, n) == ReachesById(w, n, n, MaxNodes)

\* C33 as stated: a run that is failed because no unexecuted node is ready
\* has a cycle of the edge relation among the nodes its error lists; a graph
\* without a cycle is never failed with that diagnosis.
C33_StuckMeansCycle ==
    \A r \in RunIds :
        (Returned(r) /\ execution[r].error # None /\ execution[r].error.kind = "circular")
            => \E n \in Declared(calls[r]) :
                  ErrorNames(execution[r].error, n) /\ OnEdgeCycle(calls[r], n)

\* ------------------------------------------------------------------ C35
Position(order, n) == CHOOSE j \in 1..Len(order) : order[j] = n
ValidOrder(w, order) ==
    /\ \A n \in Declared(w) : Cardinality({j \in 1..Len(order) : order[j] = n}) = 1
    /\ \A j \in 1..Len(order) : order[j] \in Declared(w)
    /\ \A s, t \in Declared(w) :
           HasEdge(w, s, t) => Position(order, s) < Position(order, t)

\* C35 as stated: for every acyclic graph whose edges join declared nodes, the
\* same edge listed more than once included, _get_execution_order returns an
\* order that contains every declared node exactly once and places every node
\* after all of its dependencies.  Violated: nodes [A, B] with the edge A -> B
\* listed twice give B an in-degree of 2 that is decremented once, and the
\* order is [A].
C35_ValidExecutionOrder ==
    (call_args.op = "_get_execution_order" /\ call_ret # None)
        => LET w == [nodes |-> call_args.nodes, edges |-> call_ret.value.edges]
           IN  WellFormed(w) => ValidOrder(w, call_ret.value.order)

\* ------------------------------------------------------------------ C34
LgRunReturned == call_args.op = "lg_execute_workflow" /\ call_ret # None
LgExecutedIds ==
    [j \in 1..Len(call_ret.value.executed) |-> call_ret.value.executed[j].node_id]
LgSomeNodeFailed ==
    \E j \in 1..Len(call_ret.value.executed) : call_ret.value.executed[j].status = "failed"

\* C34 as stated: in LangGraphWorkflowExecutor.execute_workflow a node whose
\* result has status 'failed' does not stop the run: every later node of the
\* execution order is still executed and the returned result has status
\* 'completed'.  Violated in its last part: the later nodes are executed, but
\* when the failed result is the state a node function returned, the result
\* cannot be serialised and execute_workflow returns status 'failed'.
C34_FailedNodeDoesNotStop ==
    (LgRunReturned /\ LgSomeNodeFailed)
        => /\ LgExecutedIds = LgGetExecutionOrder(call_args.nodes, call_args.edges)
           /\ call_ret.value.result.status = "completed"

\* ------------------------------------------------------------------ C39
\* n is a node of a cycle, or can be reached from one
BehindCycle(w, n) ==
    \/ OnCycle(w, n)
    \/ \E c \in Declared(w) : OnCycle(w, c) /\ Reaches(w, c, n, Len(w.nodes))

LgLeftOut(w) ==
    \A n \in Declared(w) :
        BehindCycle(w, n) => \A j \in 1..Len(LgExecutedIds) : LgExecutedIds[j] # n

\* C39 as stated: in the LangGraph variant the nodes of a cycle and all nodes
\* downstream of it are left out of the execution order: they are never
\* executed, no error is raised, and execute_workflow still returns status
\* 'completed'.  The nodes are left out and the sort raises nothing, but the
\* status is 'failed' as soon as a node outside the cycle ran its node
\* function to the end.
C39_CycleSilentlyLeftOut ==
    (LgRunReturned /\ HasCycle(call_args))
        => /\ LgLeftOut(call_args)
           /\ call_ret.value.result.status = "completed"

\* ------------------------------------------------------------------ C36
\* C36 as stated: in a graph with a cycle, every node that does not depend,
\* directly or transitively, on a node of a cycle is executed and its step is
\* Completed in the record of the failed run.  Violated when such a node
\* fails: the run is aborted with that node's error (see C5).
C36_IndependentNodesCompleted ==
    \A r \in RunIds :
        (Returned(r) /\ HasCycle(calls[r]))
            => \A n \in Declared(calls[r]) :
                  ~BehindCycle(calls[r], n) => StatusOf(r, n) = COMPLETED

\* n cannot become ready: it is on a cycle of edges, or it depends, directly
\* or transitively, on a node of such a cycle or on an id that is no node
WaitsForever(w, n) ==
    \/ OnEdgeCycle(w, n)
    \/ \E m \in NodeIds :
          /\ ReachesById(w, m, n, MaxNodes)
          /\ m \notin Declared(w) \/ OnEdgeCycle(w, m)

\* C36: cycle detection is not a pre-flight check.  When a run is failed with
\* the circular-dependency diagnosis (so no node failed before), every node
\* that waits neither for a cycle node nor for an undeclared id has been
\* executed and its step is Completed with a successful result, while every
\* node that does wait is still Pending and is listed in the diagnosis.
C36_CompletedBeforeCycleFails ==
    [](\A r \in RunIds :
         (Returned(r) /\ execution[r].error # None /\ execution[r].error.kind = "circular")
             => \A n \in Declared(calls[r]) :
                   IF WaitsForever(calls[r], n)
                   THEN /\ StatusOf(r, n) = PENDING
                        /\ ErrorNames(execution[r].error, n)
                   ELSE /\ n \in executed_nodes[r]
                        /\ Succeeded(StepOf(r, n))
                        /\ ~ErrorNames(execution[r].error, n))

\* a Failed record of a cyclic graph in which the node outside the cycle is
\* Completed and the cycle's node never started
C36_Witness ==
    /\ Returned(Run1)
    /\ execution[Run1].status = FAILED
    /\ execution[Run1].error.kind = "circular"
    /\ Len(calls[Run1].nodes) = 2
    /\ OnCycle(calls[Run1], "B") /\ ~BehindCycle(calls[Run1], "A")
    /\ Succeeded(StepOf(Run1, "A")) /\ StatusOf(Run1, "B") = PENDING
    /\ execution[Run1].error.remaining = <<"B">>

\* ------------------------------------------------------------------ C37
\* the outcome of task i of the last wave of run r
TaskSucceeded(r, i) == tasks[r][i].result.kind = "result" /\ tasks[r][i].result.success
\* what the "Process results" loop raises for task i
TaskError(r, i) ==
    IF tasks[r][i].result.kind = "result"
    THEN ErrNodeFailed(TaskNode(r, i).id, tasks[r][i].result.error)
    ELSE tasks[r][i].result.error
FailedTasks(r) == {i \in 1..Len(tasks[r]) : ~TaskSucceeded(r, i)}
NodeFailure(r) ==
    Returned(r) /\ execution[r].error # None /\ execution[r].error.kind # "circular"

\* C37: when a node of a wave fails, the run is failed only after every node
\* of that wave has run to its end: each task of the wave is done, the step of
\* a successful sibling is Completed and the step of every failing node is
\* Failed with its own error; the wave's nodes are in node-list order, and
\* the run-level error is that of the failing node that comes first in it.
C37_WaveSiblingsFinish ==
    [](\A r \in RunIds :
         NodeFailure(r)
             => /\ execution[r].status = FAILED
                /\ FailedTasks(r) # {}
                /\ \A i, j \in 1..Len(tasks[r]) : i < j => ready_nodes[r][i] < ready_nodes[r][j]
                /\ \A i \in 1..Len(tasks[r]) :
                      LET step == execution[r].steps[TaskStep(r, i)]
                      IN  /\ tasks[r][i].state = "done"
                          /\ step.end_time
                          /\ started_in[r][TaskNode(r, i).id] = wave[r]
                          /\ IF TaskSucceeded(r, i)
                             THEN Succeeded(step)
                             ELSE step.status = FAILED /\ step.error = tasks[r][i].result.error
                /\ \E first \in FailedTasks(r) :
                      /\ \A i \in FailedTasks(r) : first <= i
                      /\ execution[r].error = TaskError(r, first))

\* a wave of three: A succeeds, B reports a failure, C raises; the run's error
\* is B's
C37_Witness ==
    /\ Returned(Run1) /\ execution[Run1].status = FAILED
    /\ Len(tasks[Run1]) = 3
    /\ Succeeded(StepOf(Run1, "A"))
    /\ StatusOf(Run1, "B") = FAILED /\ ReportedFailure(Run1, "B")
    /\ StatusOf(Run1, "C") = FAILED /\ StepOf(Run1, "C").error = ErrExecutorFault
    /\ execution[Run1].error = ErrNodeFailed("B", ErrExecutorText)

\* ------------------------------------------------------------------ C38
\* The run-level error is str(e) of the exception that ended the run
\* (workflow_executor.py:110-113).  The texts the engine builds itself are not
\* empty; what a task raised is raised again unchanged (lines 189-191), and
\* the text of what an executor threw is the executor's: str() of an exception
\* raised without a message, asyncio.TimeoutError() for one, is ''.
MayBeEmptyText(e) == e = ErrExecutorFault

\* C38 as stated: a run returned with status Completed has every step
\* Completed and no run-level error (whether or not cancel_execution was
\* called on the way); a run returned with status Failed has a non-empty
\* run-level error.  Violated in its second part by a run that an executor's
\* exception ended.
C38_StatusMatchesSteps ==
    \A r \in RunIds :
        Returned(r)
            => /\ execution[r].status = COMPLETED
                    => /\ \A n \in Declared(calls[r]) : StatusOf(r, n) = COMPLETED
                       /\ execution[r].error = None
               /\ execution[r].status = FAILED
                    => /\ execution[r].error # None
                       /\ ~MayBeEmptyText(execution[r].error)

====
